---- MODULE Spec2Model ----
(***************************************************************************)
(* A model of the travel-planning assistant: the Trip Record and its       *)
(* completeness predicate, the monolithic dialogue loop (Agenta.py), the   *)
(* session-state helpers (utils/state_manager.py), the Slot Extractor      *)
(* merge (agents/details_agent.py) and the JSON block extraction.          *)
(*                                                                         *)
(* Strings are sequences of one-character strings, so that trimming,       *)
(* lower-casing and substring search are computed and not assumed.         *)
(***************************************************************************)
EXTENDS Integers, Sequences, FiniteSets, TLC

VARIABLES
    trip_details,         \* st.session_state.trip_details: key -> string
    itinerary_generated,  \* st.session_state.itinerary_generated
    generated_itinerary,  \* st.session_state.generated_itinerary (NoItinerary is None)
    conversation,         \* st.session_state.conversation: sequence of [role, content]
    details,              \* the current_details dict handed to DetailsAgent._extract_details
    call,                 \* the last call of a library function: its name, arguments and result
    cache,                \* DestinationAgent.cache (BaseAgent.cache): destination -> record
    search_results_cache  \* DestinationResearchAgent.search_results_cache

vars == <<trip_details, itinerary_generated, generated_itinerary, conversation, details, call, cache,
          search_results_cache>>

(***************************************************************************)
(* Bounds of the model.                                                    *)
(***************************************************************************)
MaxTurns == 2

(***************************************************************************)
(* Python string primitives.                                               *)
(***************************************************************************)
Whitespace == {" "}

RECURSIVE LStrip(_)
LStrip(s) ==
    IF s = <<>> THEN s
    ELSE IF Head(s) \in Whitespace THEN LStrip(Tail(s)) ELSE s

RECURSIVE RStrip(_)
RStrip(s) ==
    IF s = <<>> THEN s
    ELSE IF s[Len(s)] \in Whitespace THEN RStrip(SubSeq(s, 1, Len(s) - 1)) ELSE s

\* str.strip()
Strip(s) == RStrip(LStrip(s))

\* the upper-case letters and their lower-case forms
UpperToLower ==
    "A" :> "a" @@ "B" :> "b" @@ "C" :> "c" @@ "D" :> "d" @@ "E" :> "e" @@ "F" :> "f" @@
    "G" :> "g" @@ "H" :> "h" @@ "I" :> "i" @@ "J" :> "j" @@ "K" :> "k" @@ "L" :> "l" @@
    "M" :> "m" @@ "N" :> "n" @@ "O" :> "o" @@ "P" :> "p" @@ "Q" :> "q" @@ "R" :> "r" @@
    "S" :> "s" @@ "T" :> "t" @@ "U" :> "u" @@ "V" :> "v" @@ "W" :> "w" @@ "X" :> "x" @@
    "Y" :> "y" @@ "Z" :> "z"

LowerChar(c) == IF c \in DOMAIN UpperToLower THEN UpperToLower[c] ELSE c

\* str.lower()
Lower(s) == [i \in 1..Len(s) |-> LowerChar(s[i])]

\* needle in hay (substring test)
Contains(hay, needle) ==
    \E i \in 0..(Len(hay) - Len(needle)) : SubSeq(hay, i + 1, i + Len(needle)) = needle

Digits == <<"0","1","2","3","4","5","6","7","8","9">>

IsDigit(c) == \E d \in 1..10 : Digits[d] = c

DigitValue(c) == (CHOOSE d \in 1..10 : Digits[d] = c) - 1

RECURSIVE DecimalValue(_)
DecimalValue(s) ==
    IF s = <<>> THEN 0
    ELSE 10 * DecimalValue(SubSeq(s, 1, Len(s) - 1)) + DigitValue(s[Len(s)])

\* str.split()[0]: the first whitespace-delimited token (<<>> when there is none)
RECURSIVE TakeToken(_)
TakeToken(s) ==
    IF s = <<>> \/ Head(s) \in Whitespace THEN <<>>
    ELSE <<Head(s)>> \o TakeToken(Tail(s))

FirstToken(s) == TakeToken(LStrip(s))

\* int(token) succeeds on a non-empty run of digits
IsIntLiteral(tok) == tok /= <<>> /\ \A i \in 1..Len(tok) : IsDigit(tok[i])

(***************************************************************************)
(* The Trip Record.                                                        *)
(***************************************************************************)
K_Destination == <<"D","e","s","t","i","n","a","t","i","o","n">>
K_Duration == <<"D","u","r","a","t","i","o","n">>
K_Budget == <<"B","u","d","g","e","t">>
K_Dietary == <<"D","i","e","t","a","r","y"," ","P","r","e","f","e","r","e","n","c","e","s">>
K_Mobility == <<"M","o","b","i","l","i","t","y"," ","C","o","n","c","e","r","n","s">>
K_Season == <<"S","e","a","s","o","n">>
K_Activity == <<"A","c","t","i","v","i","t","y"," ","P","r","e","f","e","r","e","n","c","e","s">>
K_Accommodation == <<"A","c","c","o","m","m","o","d","a","t","i","o","n"," ","T","y","p","e">>

\* The keys of st.session_state.trip_details, in insertion order.
TripKeySeq ==
    <<K_Destination, K_Duration, K_Budget, K_Dietary, K_Mobility,
      K_Season, K_Activity, K_Accommodation>>

TripKeys == {TripKeySeq[i] : i \in 1..Len(TripKeySeq)}

\* required_fields of has_required_details
required_fields == <<K_Destination, K_Duration, K_Budget, K_Dietary, K_Mobility>>

RequiredSet == {required_fields[i] : i \in 1..Len(required_fields)}

EmptyTripDetails == [k \in TripKeys |-> <<>>]

\* The field names of agents/details_agent.py
K_Origin == <<"O","r","i","g","i","n">>
K_Travel_Dates == <<"T","r","a","v","e","l","_","D","a","t","e","s">>
K_Travelers_Count == <<"T","r","a","v","e","l","e","r","s","_","C","o","u","n","t">>
K_Travelers_Type == <<"T","r","a","v","e","l","e","r","s","_","T","y","p","e">>
K_Dietary_Preferences == <<"D","i","e","t","a","r","y","_","P","r","e","f","e","r","e","n","c","e","s">>
K_Mobility_Concerns == <<"M","o","b","i","l","i","t","y","_","C","o","n","c","e","r","n","s">>
K_Activity_Preferences == <<"A","c","t","i","v","i","t","y","_","P","r","e","f","e","r","e","n","c","e","s">>
K_Accommodation_Type == <<"A","c","c","o","m","m","o","d","a","t","i","o","n","_","T","y","p","e">>
K_Transportation_Preferences == <<"T","r","a","n","s","p","o","r","t","a","t","i","o","n","_","P","r","e","f","e","r","e","n","c","e","s">>
K_Purpose_Of_Trip == <<"P","u","r","p","o","s","e","_","O","f","_","T","r","i","p">>
K_Must_See_Attractions == <<"M","u","s","t","_","S","e","e","_","A","t","t","r","a","c","t","i","o","n","s">>
K_Weather_Preferences == <<"W","e","a","t","h","e","r","_","P","r","e","f","e","r","e","n","c","e","s">>
K_Previous_Travel_Experience == <<"P","r","e","v","i","o","u","s","_","T","r","a","v","e","l","_","E","x","p","e","r","i","e","n","c","e">>
K_Shopping_Interests == <<"S","h","o","p","p","i","n","g","_","I","n","t","e","r","e","s","t","s">>
K_Special_Occasions == <<"S","p","e","c","i","a","l","_","O","c","c","a","s","i","o","n","s">>
K_Language_Assistance_Needs == <<"L","a","n","g","u","a","g","e","_","A","s","s","i","s","t","a","n","c","e","_","N","e","e","d","s">>

\* DetailsAgent.required_fields (lines 18-28)
details_required_fields ==
    <<K_Destination, K_Origin, K_Duration, K_Travel_Dates, K_Travelers_Count,
      K_Travelers_Type, K_Budget, K_Dietary_Preferences, K_Mobility_Concerns>>

\* DetailsAgent.optional_fields (lines 31-43)
details_optional_fields ==
    <<K_Season, K_Activity_Preferences, K_Accommodation_Type,
      K_Transportation_Preferences, K_Purpose_Of_Trip, K_Must_See_Attractions,
      K_Weather_Preferences, K_Previous_Travel_Experience, K_Shopping_Interests,
      K_Special_Occasions, K_Language_Assistance_Needs>>

DetailsRequiredSet == {details_required_fields[i] : i \in 1..Len(details_required_fields)}

DetailsOptionalSet == {details_optional_fields[i] : i \in 1..Len(details_optional_fields)}

\* dict.get(key, default)
Get(d, key, default) == IF key \in DOMAIN d THEN d[key] ELSE default

\* d[key] = value on a dict: the key is added when the dict does not hold it
SetItem(d, key, value) ==
    [k \in DOMAIN d \cup {key} |-> IF k = key THEN value ELSE d[k]]

\* has_required_details without the trimming of each value
has_required_details_untrimmed(td) ==
    \A i \in 1..Len(required_fields) : Get(td, required_fields[i], <<>>) /= <<>>

\* utils/state_manager.py has_required_details, on the record td
has_required_details(td) ==
    \A i \in 1..Len(required_fields) : Strip(Get(td, required_fields[i], <<>>)) /= <<>>

\* a gate that looks at Destination alone
agenta_has_destination(td) == Strip(td[required_fields[1]]) /= <<>>

\* Agenta.py has_required_details, on the record td (indexes every required key)
agenta_has_required_details(td) ==
    \A i \in 1..Len(required_fields) : Strip(td[required_fields[i]]) /= <<>>

\* DetailsAgent.has_required_details(details) (agents/details_agent.py 303-305)
DetailsAgent_has_required_details(d) ==
    \A i \in 1..Len(details_required_fields) :
        Strip(Get(d, details_required_fields[i], <<>>)) /= <<>>

(***************************************************************************)
(* Values a user or the model may supply.  A JSON value that is not a      *)
(* string is the one-element sequence JNum (a non-zero number) or JNull:   *)
(* no character is "#num" or "#null", so neither equals any string.        *)
(***************************************************************************)
S_Paris == <<"P","a","r","i","s">>
S_Rome == <<"R","o","m","e">>
S_RomePadded == <<" ","R","o","m","e"," ">>
S_5days == <<"5"," ","d","a","y","s">>
S_aweek == <<"a"," ","w","e","e","k">>
S_low == <<"l","o","w">>
S_none == <<"n","o","n","e">>
S_summer == <<"s","u","m","m","e","r">>
S_cat == <<"c","a","t">>
S_blank == <<" ">>
K_Pets == <<"P","e","t","s">>
K_DurationPadded == <<" ","D","u","r","a","t","i","o","n"," ">>

JNum == <<"#num">>
JNull == <<"#null">>

IsStr(v) == v /= JNum /\ v /= JNull

\* Python truthiness of a JSON value: "" and null are falsy
Truthy(v) == v /= <<>> /\ v /= JNull

\* What the sidebar's text inputs may hold, per field (the last two optional
\* fields are left empty).
FieldVals(k) ==
    IF k = K_Destination THEN {<<>>, S_blank, S_Paris, S_Rome}
    ELSE IF k = K_Duration THEN {<<>>, S_5days, S_aweek}
    ELSE IF k = K_Budget THEN {<<>>, S_low}
    ELSE IF k = K_Dietary THEN {<<>>, S_none}
    ELSE IF k = K_Mobility THEN {<<>>, S_none}
    ELSE IF k = K_Season THEN {<<>>, S_summer}
    ELSE {<<>>}

generate_triggers ==
    {<<"g","e","n","e","r","a","t","e"," ","i","t","i","n","e","r","a","r","y">>,
     <<"g","e","n","e","r","a","t","e"," ","m","y"," ","i","t","i","n","e","r","a","r","y">>,
     <<"c","r","e","a","t","e"," ","i","t","i","n","e","r","a","r","y">>,
     <<"m","a","k","e"," ","i","t","i","n","e","r","a","r","y">>,
     <<"p","l","a","n"," ","m","y"," ","t","r","i","p">>}

generation_phrases ==
    {<<"g","e","n","e","r","a","t","e"," ","i","t","i","n","e","r","a","r","y">>,
     <<"c","r","e","a","t","e"," ","i","t","i","n","e","r","a","r","y">>,
     <<"m","a","k","e"," ","i","t","i","n","e","r","a","r","y">>,
     <<"p","l","a","n"," ","m","y"," ","t","r","i","p">>,
     <<"c","r","e","a","t","e"," ","a"," ","p","l","a","n">>,
     <<"m","a","k","e"," ","a"," ","p","l","a","n">>,
     <<"p","l","a","n"," ","t","h","e"," ","t","r","i","p">>,
     <<"g","e","n","e","r","a","t","e"," ","m","y"," ","t","r","i","p">>,
     <<"p","l","a","n">>,
     <<"g","e","n","e","r","a","t","e">>,
     <<"i","t","i","n","e","r","a","r","y">>,
     <<"l","e","t","'","s"," ","c","r","e","a","t","e">>,
     <<"l","e","t","'","s"," ","g","e","n","e","r","a","t","e">>,
     <<"c","a","n"," ","y","o","u"," ","g","e","n","e","r","a","t","e">>,
     <<"c","a","n"," ","y","o","u"," ","c","r","e","a","t","e">>}

\* The (key, value) items the trailing {"trip_details": {...}} of a response may carry.
ModelItems ==
    {<<K_Destination, S_RomePadded>>, <<K_Destination, S_Paris>>, <<K_Destination, S_blank>>,
     <<K_DurationPadded, S_5days>>, <<K_Pets, S_cat>>, <<K_Budget, JNum>>}

\* The dicts over a set of items with at most two keys, as item sequences in dict order.
ItemSeqs(items) ==
    {<<>>} \cup {<<p>> : p \in items}
           \cup {s \in {<<p, q>> : p \in items, q \in items} : s[1][1] /= s[2][1]}

HasKey(items, key) == \E i \in 1..Len(items) : items[i][1] = key

ItemValue(items, key) == items[CHOOSE i \in 1..Len(items) : items[i][1] = key][2]

(***************************************************************************)
(* Agenta.py: the dialogue loop.                                           *)
(***************************************************************************)
NoItinerary == [present |-> FALSE, days |-> 0, destination |-> <<>>]

SystemTurn == [role |-> "system", content |-> <<"SYSTEM_PROMPT">>]

GreetingTurn == [role |-> "assistant", content |-> <<"greeting">>]

\* a greeting recorded in front of the system turn
GreetInFront(conv) == IF Len(conv) = 1 THEN <<GreetingTurn>> \o conv ELSE conv

\* Agenta.py 450-453: the greeting is appended when only the system turn exists
Greet(conv) == IF Len(conv) = 1 THEN Append(conv, GreetingTurn) ELSE conv

NumUserTurns(conv) == Cardinality({i \in 1..Len(conv) : conv[i].role = "user"})

\* What the chat completion of a turn may come to: the call raises; the response
\* holds no decodable JSON block (json_data is None); the block decodes to an
\* object without "trip_details"; or to {"trip_details": {...}}.
Replies ==
    {[kind |-> "api_error", items |-> <<>>], [kind |-> "no_json", items |-> <<>>],
     [kind |-> "other_json", items |-> <<>>]}
    \cup {[kind |-> "trip_details", items |-> s] : s \in ItemSeqs(ModelItems)}

\* The loop of update_trip_details_from_json over details.items(); value.strip()
\* raises AttributeError on a truthy value that is not a string.
RECURSIVE ApplyJsonItems(_, _)
ApplyJsonItems(td, items) ==
    IF items = <<>> THEN [td |-> td, raised |-> FALSE]
    ELSE LET key == items[1][1]
             value == items[1][2]
             formatted_key == Strip(key)
         IN  IF ~Truthy(value) THEN ApplyJsonItems(td, Tail(items))
             ELSE IF ~IsStr(value) THEN [td |-> td, raised |-> TRUE]
             ELSE IF Strip(value) = <<>> THEN ApplyJsonItems(td, Tail(items))
             ELSE IF formatted_key \in DOMAIN td
                  THEN ApplyJsonItems(SetItem(td, formatted_key, Strip(value)), Tail(items))
                  ELSE ApplyJsonItems(td, Tail(items))

update_trip_details_from_json(td, json_data) ==
    IF json_data.kind = "trip_details"
    THEN ApplyJsonItems(td, json_data.items)
    ELSE [td |-> td, raised |-> FALSE]

\* should_generate with the longer phrase list, bare "plan" and "generate" included
should_generate_permissive(user_input) ==
    LET user_input_lower == Lower(user_input)
    IN  \E phrase \in generation_phrases : Contains(user_input_lower, phrase)

\* any(trigger in user_input.lower() for trigger in generate_triggers)
should_generate(user_input) ==
    LET user_input_lower == Lower(user_input)
    IN  \E trigger \in generate_triggers : Contains(user_input_lower, trigger)

\* generate_detailed_itinerary: None when int(Duration.split()[0]) raises or a
\* completion call raises (llm_ok is FALSE); otherwise the document, kept as the
\* day count and Destination its heading interpolates.
generate_detailed_itinerary(td, llm_ok) ==
    LET token == FirstToken(td[K_Duration])
    IN  IF ~IsIntLiteral(token) \/ ~llm_ok THEN NoItinerary
        ELSE [present |-> TRUE, days |-> DecimalValue(token),
              destination |-> td[K_Destination]]

S_PlanMyTrip == <<"P","l","a","n"," ","M","y"," ","T","r","i","p"," ">>
S_generally == <<"I"," ","g","e","n","e","r","a","l","l","y"," ","l","i","k","e"," ","p","l","a","n","s">>
S_pleasegen == <<"p","l","e","a","s","e"," ","g","e","n","e","r","a","t","e"," ","i","t","i","n","e","r","a","r","y"," ","n","o","w">>
S_hello == <<"h","e","l","l","o">>

\* What the user may type into the chat input of the loop.
ChatInputs == {S_PlanMyTrip, S_generally}

\* a handler that records the failure as an assistant turn
ApiErrorTranscriptLogged(conv1) ==
    Append(conv1, [role |-> "assistant", content |-> <<"error">>])

\* The transcript the except clause of lines 531-532 leaves: st.error shows the
\* failure and appends nothing.
ApiErrorTranscript(conv1) == conv1

\* One script run with chat input (Agenta.py 450-532); the first run of a
\* session has no input, so the greeting is recorded before any turn.  llm_ok
\* tells whether the calls of generate_detailed_itinerary succeed; a turn that
\* does not reach generate_detailed_itinerary has no such call to fail.
ChatTurn(raw, reply, llm_ok) ==
    /\ Len(conversation) > 1
    /\ NumUserTurns(conversation) < MaxTurns
    /\ LET user_input == Strip(raw)
           conv1 == Append(Greet(conversation), [role |-> "user", content |-> user_input])
           upd == update_trip_details_from_json(trip_details, reply)
           conv2 == Append(conv1, [role |-> "assistant", content |-> <<"response">>])
       IN  /\ llm_ok \/ (/\ reply.kind /= "api_error"
                          /\ ~upd.raised
                          /\ agenta_has_required_details(upd.td)
                          /\ ~itinerary_generated
                          /\ should_generate(user_input))
           /\ IF reply.kind = "api_error"
              THEN /\ conversation' = ApiErrorTranscript(conv1)
                   /\ UNCHANGED <<trip_details, itinerary_generated, generated_itinerary>>
              ELSE IF upd.raised
              THEN /\ conversation' = conv1
                   /\ trip_details' = upd.td
                   /\ UNCHANGED <<itinerary_generated, generated_itinerary>>
              ELSE /\ conversation' = conv2
                   /\ trip_details' = upd.td
                   /\ IF /\ agenta_has_required_details(upd.td)
                         /\ ~itinerary_generated
                         /\ should_generate(user_input)
                      THEN LET itinerary == generate_detailed_itinerary(upd.td, llm_ok)
                           IN  IF itinerary.present
                               THEN /\ itinerary_generated' = TRUE
                                    /\ generated_itinerary' = itinerary
                               ELSE UNCHANGED <<itinerary_generated, generated_itinerary>>
                      ELSE UNCHANGED <<itinerary_generated, generated_itinerary>>
    /\ call' = [op |-> "chat_turn",
                completion |-> IF reply.kind = "api_error" THEN "raised" ELSE "answered",
                llm_ok |-> llm_ok]
    /\ UNCHANGED <<details, cache, search_results_cache>>

\* an "Update Details" that clears the flag and keeps the stored itinerary
SidebarUpdateKeepsItinerary(new_values) ==
    /\ Len(conversation) > 1
    /\ new_values /= trip_details
    /\ trip_details' = [key \in DOMAIN trip_details \cup DOMAIN new_values |->
                           IF key \in DOMAIN new_values THEN new_values[key]
                           ELSE trip_details[key]]
    /\ itinerary_generated' = FALSE
    /\ conversation' = Greet(conversation)
    /\ call' = [op |-> "sidebar_update"]
    /\ UNCHANGED <<generated_itinerary, details, cache, search_results_cache>>

\* "Update Details" pressed with the form's values new_values (Agenta.py 346-351).
SidebarUpdate(new_values) ==
    /\ Len(conversation) > 1
    /\ new_values /= trip_details
    /\ trip_details' = [key \in DOMAIN trip_details \cup DOMAIN new_values |->
                           IF key \in DOMAIN new_values THEN new_values[key]
                           ELSE trip_details[key]]
    /\ itinerary_generated' = FALSE
    /\ generated_itinerary' = NoItinerary
    /\ conversation' = Greet(conversation)
    /\ call' = [op |-> "sidebar_update"]
    /\ UNCHANGED <<details, cache, search_results_cache>>

\* a reset that empties the required fields only
ResetRequired(td) == [key \in DOMAIN td |-> IF key \in RequiredSet THEN <<>> ELSE td[key]]

\* for key in trip_details: trip_details[key] = "" (Agenta.py 354-355)
ResetRecord(td) == [key \in DOMAIN td |-> <<>>]

\* "Reset" pressed (Agenta.py 353-358); the call records whether an itinerary
\* was stored when it was pressed.
SidebarReset ==
    /\ Len(conversation) > 1
    /\ trip_details' = ResetRecord(trip_details)
    /\ itinerary_generated' = FALSE
    /\ generated_itinerary' = NoItinerary
    /\ conversation' = Greet(conversation)
    /\ call' = [op |-> "reset", had_itinerary |-> itinerary_generated]
    /\ UNCHANGED <<details, cache, search_results_cache>>

\* The first script run: no input, the greeting is shown and recorded.
PageLoad ==
    /\ Len(conversation) = 1
    /\ conversation' = Greet(conversation)
    /\ UNCHANGED <<trip_details, itinerary_generated, generated_itinerary, details, call,
                   cache, search_results_cache>>

NoCall == [op |-> "none"]

\* Agenta.py 407-421
Init ==
    /\ conversation = <<SystemTurn>>
    /\ trip_details = EmptyTripDetails
    /\ itinerary_generated = FALSE
    /\ generated_itinerary = NoItinerary
    /\ details = <<>>
    /\ call = NoCall
    /\ cache = <<>>
    /\ search_results_cache = <<>>

Next ==
    \/ PageLoad
    \/ \E raw \in ChatInputs, reply \in Replies, llm_ok \in BOOLEAN :
           ChatTurn(raw, reply, llm_ok)
    \/ \E key \in TripKeys : \E v \in FieldVals(key) :
           SidebarUpdate([trip_details EXCEPT ![key] = v])
    \/ SidebarReset

Spec == Init /\ [][Next]_vars

(***************************************************************************)
(* utils/state_manager.py: the session-state helpers.                      *)
(***************************************************************************)
\* The (key, value) items a new_details dict may carry.
NewDetailsItems ==
    {<<K_Destination, S_Rome>>, <<K_Destination, S_RomePadded>>, <<K_Destination, S_blank>>,
     <<K_Destination, JNull>>, <<K_Duration, S_aweek>>, <<K_Pets, S_cat>>, <<K_Budget, JNum>>}

\* The loop of update_trip_details (lines 65-70) over new_details.items();
\* value.strip() raises AttributeError on a truthy value that is not a string.
\* a test that lets every key of new_details through
KeyAccepted(td, key) == TRUE

\* key in st.session_state.trip_details (line 67)
KeyInTripDetails(td, key) == key \in DOMAIN td

RECURSIVE UpdateLoop(_, _)
UpdateLoop(td, items) ==
    IF items = <<>> THEN [td |-> td, raised |-> FALSE]
    ELSE LET key == items[1][1]
             value == items[1][2]
         IN  IF ~KeyInTripDetails(td, key) \/ ~Truthy(value) THEN UpdateLoop(td, Tail(items))
             ELSE IF ~IsStr(value) THEN [td |-> td, raised |-> TRUE]
             ELSE IF Strip(value) = <<>> THEN UpdateLoop(td, Tail(items))
             ELSE UpdateLoop(SetItem(td, key, value), Tail(items))

\* The test of line 73, made after the loop has stored the new values;
\* None.strip() raises AttributeError.
DestinationChanged(td, new_details) ==
    LET value == ItemValue(new_details, K_Destination)
    IN  IF ~HasKey(new_details, K_Destination) THEN [reset |-> FALSE, raised |-> FALSE]
        ELSE IF ~IsStr(value) THEN [reset |-> FALSE, raised |-> TRUE]
        ELSE [reset |-> Strip(value) /= <<>> /\ Strip(value) /= Get(td, K_Destination, <<>>),
              raised |-> FALSE]

\* update_trip_details(new_details) on the record td: the record it leaves, the
\* value it returns, whether it reset the itinerary and whether it raised.
update_trip_details(td, new_details) ==
    LET loop == UpdateLoop(td, new_details)
        test == DestinationChanged(loop.td, new_details)
    IN  IF loop.raised
        THEN [td |-> loop.td, modified |-> FALSE, reset |-> FALSE, raised |-> TRUE]
        ELSE [td |-> loop.td, modified |-> loop.td /= td,
              reset |-> test.reset, raised |-> test.raised]

\* any(phrase in user_input.lower() for phrase in generation_phrases)
should_generate_itinerary(user_input) ==
    LET user_input_lower == Lower(user_input)
    IN  \E phrase \in generation_phrases : Contains(user_input_lower, phrase)

UpdateTripDetails(new_details) ==
    LET r == update_trip_details(trip_details, new_details)
    IN  /\ trip_details' = r.td
        /\ IF r.reset
           THEN /\ itinerary_generated' = FALSE
                /\ generated_itinerary' = NoItinerary
           ELSE UNCHANGED <<itinerary_generated, generated_itinerary>>
        /\ call' = [op |-> "update_trip_details", new_details |-> new_details,
                    modified |-> r.modified, raised |-> r.raised]
        /\ UNCHANGED <<conversation, details,
                       cache, search_results_cache>>

\* The records handed to DetailsAgent.has_required_details: every required
\* field filled, one of them blank or whitespace-only, one key absent.
DetailsRecords ==
    LET full == [k \in DetailsRequiredSet \cup DetailsOptionalSet |->
                    IF k \in DetailsRequiredSet THEN S_Rome ELSE <<>>]
    IN  {full, SetItem(full, K_Season, S_summer), SetItem(full, K_Origin, S_blank),
         SetItem(full, K_Mobility_Concerns, <<>>),
         [k \in DOMAIN full \ {K_Travel_Dates} |-> full[k]]}

\* One call of each completeness predicate: the two of the session on the
\* Trip Record, the one of DetailsAgent on the record it is handed.
HasRequiredDetails(d) ==
    /\ call' = [op |-> "has_required_details",
                result |-> has_required_details(trip_details),
                agenta_result |-> agenta_has_required_details(trip_details),
                details |-> d,
                details_result |-> DetailsAgent_has_required_details(d)]
    /\ UNCHANGED <<trip_details, itinerary_generated, generated_itinerary, conversation, details,
                   cache, search_results_cache>>

ShouldGenerateItinerary(user_input) ==
    /\ call' = [op |-> "should_generate_itinerary", user_input |-> user_input,
                result |-> should_generate_itinerary(user_input),
                agenta_result |-> should_generate(user_input)]
    /\ UNCHANGED <<trip_details, itinerary_generated, generated_itinerary, conversation, details,
                   cache, search_results_cache>>

\* The Trip Records over the values of FieldVals.
TripRecords ==
    {[k \in TripKeys |->
         IF k = K_Destination THEN v[1] ELSE IF k = K_Duration THEN v[2]
         ELSE IF k = K_Budget THEN v[3] ELSE IF k = K_Dietary THEN v[4]
         ELSE IF k = K_Mobility THEN v[5] ELSE IF k = K_Season THEN v[6]
         ELSE IF k = K_Activity THEN v[7] ELSE v[8]] :
     v \in FieldVals(K_Destination) \X FieldVals(K_Duration) \X FieldVals(K_Budget)
           \X FieldVals(K_Dietary) \X FieldVals(K_Mobility) \X FieldVals(K_Season)
           \X FieldVals(K_Activity) \X FieldVals(K_Accommodation)}

\* Any session: a Trip Record with no itinerary, or a complete one with an
\* itinerary generated for its Destination.
InitSM ==
    /\ trip_details \in TripRecords
    /\ \/ itinerary_generated = FALSE /\ generated_itinerary = NoItinerary
       \/ /\ has_required_details(trip_details)
          /\ itinerary_generated = TRUE
          /\ generated_itinerary =
                 [present |-> TRUE, days |-> 5, destination |-> trip_details[K_Destination]]
    /\ conversation = <<>>
    /\ details = <<>>
    /\ call = NoCall
    /\ cache = <<>>
    /\ search_results_cache = <<>>

UserInputs == {S_pleasegen, S_generally, S_PlanMyTrip, S_hello}

NextSM ==
    \/ \E new_details \in ItemSeqs(NewDetailsItems) : UpdateTripDetails(new_details)
    \/ \E d \in DetailsRecords : HasRequiredDetails(d)
    \/ \E user_input \in UserInputs : ShouldGenerateItinerary(user_input)

SpecSM == InitSM /\ [][NextSM]_vars

(***************************************************************************)
(* agents/details_agent.py: the Slot Extractor merge.                      *)
(***************************************************************************)
\* The record DetailsAgent.process builds when it is handed none (line 58) has
\* these keys in this order; the model merges over its leading NFields keys.
NFields == 2

MergeFields == SubSeq(details_required_fields \o details_optional_fields, 1, NFields)

MergeFieldSet == {MergeFields[i] : i \in 1..Len(MergeFields)}

\* The confidence a field must exceed (line 164)
ConfidenceThreshold == 50

\* A confidence score of the response: a number, or a JSON value that is none.
Score(n) == [num |-> TRUE, n |-> n]

BadScore == [num |-> FALSE, n |-> 0]

\* A JSON object of the response: a dict from keys to values, or not a dict (null).
Dict(m) == [isdict |-> TRUE, m |-> m]

NotDict == [isdict |-> FALSE, m |-> <<>>]

\* a threshold test that lets the threshold itself pass
AtLeastThreshold(score) == score.n >= ConfidenceThreshold

\* confidence_scores.get(field, 0) > 50 (line 164), on a numeric score
ExceedsThreshold(score) == score.n > ConfidenceThreshold

\* an assignment that adds the extracted text to the text already held
AssignAppended(current_details, field, value) ==
    [current_details EXCEPT ![field] = current_details[field] \o value]

\* current_details[field] = updated_details[field] (line 165)
Assign(current_details, field, value) == SetItem(current_details, field, value)

\* The loop of lines 163-165 over the keys of current_details, in dict order.
\* "field in None", "None.get" and "str > int" raise.
RECURSIVE MergeLoop(_, _, _, _)
MergeLoop(current_details, fields, updated_details, confidence_scores) ==
    IF fields = <<>> THEN [details |-> current_details, raised |-> FALSE]
    ELSE LET field == Head(fields)
             score == Get(confidence_scores.m, field, Score(0))
         IN  IF ~updated_details.isdict
             THEN [details |-> current_details, raised |-> TRUE]
             ELSE IF field \notin DOMAIN updated_details.m \/ ~Truthy(updated_details.m[field])
             THEN MergeLoop(current_details, Tail(fields), updated_details, confidence_scores)
             ELSE IF ~confidence_scores.isdict \/ ~score.num
             THEN [details |-> current_details, raised |-> TRUE]
             ELSE IF ExceedsThreshold(score)
             THEN MergeLoop(Assign(current_details, field, updated_details.m[field]),
                            Tail(fields), updated_details, confidence_scores)
             ELSE MergeLoop(current_details, Tail(fields), updated_details, confidence_scores)

\* _extract_details after the completion call (lines 153-172), on the dict
\* current_details with keys in the order fields: the dict it returns (the one
\* it was handed, updated in place).  The response holds no {...} block, or a
\* block json.loads rejects, or one that decodes to extracted_data.
_extract_details(current_details, fields, result) ==
    IF result.kind = "decoded"
    THEN MergeLoop(current_details, fields, result.updated_details, result.confidence_scores)
    ELSE [details |-> current_details, raised |-> result.kind = "decode_error"]

\* What the completion may answer, over the fields of the merge.
UpdatedDetailsChoices ==
    {NotDict} \cup
    {Dict(m) : m \in UNION {[S -> {<<>>, S_Paris, JNum}] : S \in SUBSET MergeFieldSet}}

ConfidenceScoresChoices ==
    {NotDict} \cup
    {Dict(m) : m \in UNION {[S -> {Score(20), Score(50), Score(51), BadScore}] :
                                S \in SUBSET MergeFieldSet}}

ExtractionResults ==
    {[kind |-> k, updated_details |-> NotDict, confidence_scores |-> NotDict] :
        k \in {"no_match", "decode_error"}}
    \cup {[kind |-> "decoded", updated_details |-> u, confidence_scores |-> c] :
             u \in UpdatedDetailsChoices, c \in ConfidenceScoresChoices}

\* One call of _extract_details on the dict details.
ExtractDetails(result) ==
    /\ call.op = "none"
    /\ LET r == _extract_details(details, MergeFields, result)
       IN  /\ details' = r.details
           /\ call' = [op |-> "_extract_details", result |-> result, before |-> details,
                       raised |-> r.raised, times |-> 1, once |-> r.details]
    /\ UNCHANGED <<trip_details, itinerary_generated, generated_itinerary, conversation,
                   cache, search_results_cache>>

\* A second call with the same response on the dict the first call returned.
ExtractDetailsAgain ==
    /\ call.op = "_extract_details"
    /\ call.times = 1
    /\ details' = _extract_details(details, MergeFields, call.result).details
    /\ call' = [call EXCEPT !.times = 2]
    /\ UNCHANGED <<trip_details, itinerary_generated, generated_itinerary, conversation,
                   cache, search_results_cache>>

InitMerge ==
    /\ details \in [MergeFieldSet -> {<<>>, S_Rome}]
    /\ call = NoCall
    /\ cache = <<>>
    /\ search_results_cache = <<>>
    /\ trip_details = EmptyTripDetails
    /\ itinerary_generated = FALSE
    /\ generated_itinerary = NoItinerary
    /\ conversation = <<>>

NextMerge ==
    \/ \E result \in ExtractionResults : ExtractDetails(result)
    \/ ExtractDetailsAgain

SpecMerge == InitMerge /\ [][NextMerge]_vars

(***************************************************************************)
(* The Trip Record under every operation that writes it: the chat turn and *)
(* the sidebar of Agenta.py, update_trip_details of utils/state_manager.py *)
(* and the merge of DetailsAgent._extract_details.                         *)
(***************************************************************************)
\* The JSON replies of a chat turn, unknown and padded keys among them.
RecordReplies ==
    {[kind |-> "no_json", items |-> <<>>]}
    \cup {[kind |-> "trip_details", items |-> s] :
             s \in {<<<<K_Pets, S_cat>>>>,
                    <<<<K_DurationPadded, S_5days>>, <<K_Pets, S_cat>>>>,
                    <<<<K_Destination, S_Paris>>, <<K_Origin, S_Rome>>>>}}

\* The new_details dicts handed to update_trip_details.
RecordUpdates ==
    {<<<<K_Pets, S_cat>>>>,
     <<<<K_Destination, S_RomePadded>>, <<K_Pets, S_cat>>>>,
     <<<<K_Dietary_Preferences, S_none>>, <<K_Budget, S_low>>>>}

\* The extractions handed to the merge: every named field confident, its
\* value a text or, for Destination alone, a whitespace-only string.
RecordExtractions ==
    {[kind |-> "decoded",
      updated_details |-> Dict([k \in S |-> S_Rome]),
      confidence_scores |-> Dict([k \in S |-> Score(90)])] :
         S \in {{K_Pets}, {K_Destination, K_Origin}, {K_Season, K_Dietary_Preferences},
                RequiredSet}}
    \cup {[kind |-> "decoded",
           updated_details |-> Dict([k \in {K_Destination} |-> S_blank]),
           confidence_scores |-> Dict([k \in {K_Destination} |-> Score(90)])]}

\* The keys the sidebar form is edited at.
RecordFormKeys == {K_Destination, K_Budget}

\* One call of _extract_details with the Trip Record as current_details.
ExtractIntoTripRecord(result) ==
    LET r == _extract_details(trip_details, TripKeySeq, result)
    IN  /\ trip_details' = r.details
        /\ call' = [op |-> "_extract_details", result |-> result, raised |-> r.raised]
        /\ UNCHANGED <<itinerary_generated, generated_itinerary, conversation, details,
                       cache, search_results_cache>>

NextRecord ==
    \/ PageLoad
    \/ \E raw \in ChatInputs, reply \in RecordReplies, llm_ok \in BOOLEAN :
           ChatTurn(raw, reply, llm_ok)
    \/ \E key \in RecordFormKeys : \E v \in FieldVals(key) :
           SidebarUpdate([trip_details EXCEPT ![key] = v])
    \/ SidebarReset
    \/ \E new_details \in RecordUpdates : UpdateTripDetails(new_details)
    \/ \E result \in RecordExtractions : ExtractIntoTripRecord(result)

SpecRecord == Init /\ [][NextRecord]_vars


(***************************************************************************)
(* agents/base_agent.py and agents/itinerary_agent.py: the Completion      *)
(* Gateway and the Itinerary Composer.                                     *)
(***************************************************************************)
\* The words a Duration text is made of.
DurationWords ==
    {<<"a">>,
     <<"t","w","o">>,
     <<"T","h","r","e","e">>,
     <<"l","o","n","g">>,
     <<"w","e","e","k">>,
     <<"w","e","e","k","s">>,
     <<"w","e","e","k","e","n","d">>,
     <<"d","a","y","s">>,
     <<"1","0">>,
     <<"3">>,
     <<"a","s","d","f">>,
     <<"W","e","e","k","e","n","d">>}

\* The longest Duration text, in words.
MaxWords == 2

RECURSIVE JoinWords(_)
JoinWords(ws) ==
    IF ws = <<>> THEN <<>>
    ELSE IF Len(ws) = 1 THEN ws[1]
    ELSE ws[1] \o <<" ">> \o JoinWords(Tail(ws))

DurationTexts ==
    {<<>>} \cup {JoinWords(ws) : ws \in UNION {[1..n -> DurationWords] : n \in 1..MaxWords}}

W_week == <<"w","e","e","k">>
W_weekend == <<"w","e","e","k","e","n","d">>
W_long == <<"l","o","n","g">>

\* The digits a text starts with.
RECURSIVE TakeDigits(_)
TakeDigits(s) ==
    IF s = <<>> \/ ~IsDigit(Head(s)) THEN <<>>
    ELSE <<Head(s)>> \o TakeDigits(Tail(s))

\* re.findall(r'\d+', duration_text): the maximal digit runs, leftmost first
RECURSIVE FindNumbers(_)
FindNumbers(s) ==
    IF s = <<>> THEN <<>>
    ELSE IF IsDigit(s[1])
         THEN LET run == TakeDigits(s)
              IN  <<run>> \o FindNumbers(SubSeq(s, Len(run) + 1, Len(s)))
         ELSE FindNumbers(Tail(s))

\* _parse_duration reading the last number of the text
_parse_duration_last(duration_text) ==
    LET numbers == FindNumbers(duration_text)
    IN  IF numbers /= <<>> THEN DecimalValue(numbers[Len(numbers)]) ELSE 3

\* ItineraryAgent._parse_duration (lines 70-100)
_parse_duration(duration_text) ==
    LET numbers == FindNumbers(duration_text)
        duration_lower == Lower(duration_text)
        any(xs) == \E x \in xs : Contains(duration_lower, x)
    IN  IF duration_text = <<>> THEN 3
        ELSE IF numbers /= <<>> THEN DecimalValue(numbers[1])
        ELSE IF Contains(duration_lower, W_week) /\ any({<<"a">>, <<"o","n","e">>, <<"1">>}) THEN 7
        ELSE IF Contains(duration_lower, W_week) /\ any({<<"t","w","o">>, <<"2">>}) THEN 14
        ELSE IF Contains(duration_lower, W_week) /\ any({<<"t","h","r","e","e">>, <<"3">>}) THEN 21
        ELSE IF Contains(duration_lower, W_weekend)
             THEN IF Contains(duration_lower, W_long) THEN 3 ELSE 2
        ELSE 3

\* What the gateway of an agent is in: no client configured, a client whose
\* completion call raises, a client that answers.
GatewayModes == {"no_client", "raises", "answers"}

S_NoClientMessage == <<"I","'","m"," ","u","n","a","b","l","e"," ","t","o"," ","p","r","o","c","e","s","s"," ","t","h","i","s"," ","r","e","q","u","e","s","t"," ","w","i","t","h","o","u","t"," ","a","n"," ","A","P","I"," ","c","o","n","n","e","c","t","i","o","n",".">>
S_ErrorPrefix == <<"I"," ","e","n","c","o","u","n","t","e","r","e","d"," ","a","n"," ","e","r","r","o","r",":"," ">>
S_timeout == <<"t","i","m","e","o","u","t">>
S_completion == <<"W","h","i","c","h"," ","c","i","t","y","?">>

\* The texts a completion may be; the model may answer any text, one that reads
\* like a failure included.
CompletionTexts == {S_completion, S_ErrorPrefix \o S_timeout}

\* The messages of the exceptions the completion call may raise.
ErrorMessages == {S_timeout}

\* BaseAgent.call_llm (lines 34-58): what it returns, a str in every case, when
\* the gateway is in mode and the completion call would answer content or raise
\* an exception with the message error_msg.
call_llm(mode, content, error_msg) ==
    IF mode = "no_client" THEN [type |-> "str", text |-> S_NoClientMessage]
    ELSE IF mode = "raises" THEN [type |-> "str", text |-> S_ErrorPrefix \o error_msg]
    ELSE [type |-> "str", text |-> content]

\* One call of call_llm.
CallLlm(mode, content, error_msg) ==
    /\ call.op = "none"
    /\ call' = [op |-> "call_llm", mode |-> mode, content |-> content,
                error_msg |-> error_msg, raised |-> FALSE,
                result |-> call_llm(mode, content, error_msg)]
    /\ UNCHANGED <<trip_details, itinerary_generated, generated_itinerary, conversation, details,
                   cache, search_results_cache>>

S_Insufficient == <<"I","n","s","u","f","f","i","c","i","e","n","t"," ","d","e","t","a","i","l","s"," ","t","o"," ","g","e","n","e","r","a","t","e"," ","a","n"," ","i","t","i","n","e","r","a","r","y",".">>

\* _validate_input without the trimming of each value
_validate_input_untrimmed(td) ==
    Get(td, K_Destination, <<>>) /= <<>> /\ Get(td, K_Duration, <<>>) /= <<>>

\* ItineraryAgent._validate_input (lines 65-68)
_validate_input(td) ==
    Strip(Get(td, K_Destination, <<>>)) /= <<>> /\ Strip(Get(td, K_Duration, <<>>)) /= <<>>

Rule == [part |-> "rule"]

\* a loop that stops one day short
DayRangeShort(days) == 1..(days - 1)

\* range(1, days + 1) (line 163)
DayRange(days) == 1..days

\* _generate_day_plans (lines 161-223): one completion per day, the blocks headed
\* "## Day <day>" and joined by horizontal rules; from day on.
RECURSIVE DayPlans(_, _, _)
DayPlans(day, days, body) ==
    IF day \notin DayRange(days) THEN <<>>
    ELSE <<[part |-> "day", day |-> day, body |-> body]>>
         \o (IF day + 1 \in DayRange(days) THEN <<Rule>> ELSE <<>>)
         \o DayPlans(day + 1, days, body)

\* a gateway that tries a raising completion three times
llm_attempts_retry(mode) ==
    IF mode = "no_client" THEN 0 ELSE IF mode = "raises" THEN 3 ELSE 1

\* The number of client.chat.completions.create calls of one call_llm call
\* (base_agent.py 36-58): none without a client, else one, raising or not.
llm_attempts(mode) == IF mode = "no_client" THEN 0 ELSE 1

\* The call_llm calls of the loop of _generate_day_plans (lines 163-221), in the
\* order they are made; from day on.
RECURSIVE DayCalls(_, _, _)
DayCalls(day, days, mode) ==
    IF day \notin DayRange(days) THEN <<>>
    ELSE <<[for |-> "day", day |-> day, attempts |-> llm_attempts(mode)]>>
         \o DayCalls(day + 1, days, mode)

\* ItineraryAgent.process (lines 15-63) on the record td with the gateway in
\* mode: the message or the parts of the document it returns, the number of
\* call_llm calls it made and those calls in order.
process(td, mode) ==
    IF ~_validate_input(td)
    THEN [kind |-> "message", text |-> S_Insufficient, parts |-> <<>>, llm_calls |-> 0,
          calls |-> <<>>]
    ELSE LET destination == Get(td, K_Destination, <<>>)
             parsed == _parse_duration(Get(td, K_Duration, <<>>))
             days == IF parsed <= 0 THEN 3 ELSE parsed
             body == call_llm(mode, S_completion, S_timeout).text
             day_plans == DayPlans(1, days, body)
         IN  [kind |-> "document", text |-> <<>>,
              parts |-> <<[part |-> "heading", days |-> days, destination |-> destination],
                          [part |-> "overview", body |-> body], Rule>>
                        \o day_plans
                        \o <<Rule, [part |-> "practical", body |-> body], Rule,
                             [part |-> "footer"]>>,
              llm_calls |-> 1 + Cardinality(DayRange(days)) + 1,
              calls |-> <<[for |-> "overview", day |-> 0, attempts |-> llm_attempts(mode)]>>
                        \o DayCalls(1, days, mode)
                        \o <<[for |-> "practical", day |-> 0,
                              attempts |-> llm_attempts(mode)]>>]

S_0days == <<"0"," ","d","a","y","s">>

\* The Trip Records handed to process: blank, whitespace-only and filled
\* Destination and Duration, and a record without the Duration key.
ProcessRecords ==
    {SetItem(SetItem(EmptyTripDetails, K_Destination, d), K_Duration, t) :
        d \in {<<>>, S_blank, S_Paris, S_RomePadded},
        t \in {<<>>, S_blank, S_5days, S_aweek, S_0days, W_weekend}}
    \cup {[k \in {K_Destination} |-> S_Paris]}

\* One call of ItineraryAgent.process.
Process(td, mode) ==
    /\ call.op = "none"
    /\ call' = [op |-> "process", trip_details |-> td, mode |-> mode,
                result |-> process(td, mode)]
    /\ UNCHANGED <<trip_details, itinerary_generated, generated_itinerary, conversation, details,
                   cache, search_results_cache>>

\* One call of _parse_duration.
ParseDuration(duration_text) ==
    /\ call.op = "none"
    /\ call' = [op |-> "_parse_duration", duration_text |-> duration_text,
                result |-> _parse_duration(duration_text)]
    /\ UNCHANGED <<trip_details, itinerary_generated, generated_itinerary, conversation, details,
                   cache, search_results_cache>>

InitItin ==
    /\ call = NoCall
    /\ cache = <<>>
    /\ search_results_cache = <<>>
    /\ details = <<>>
    /\ trip_details = EmptyTripDetails
    /\ itinerary_generated = FALSE
    /\ generated_itinerary = NoItinerary
    /\ conversation = <<>>

NextItin ==
    \/ \E duration_text \in DurationTexts : ParseDuration(duration_text)
    \/ \E mode \in GatewayModes, content \in CompletionTexts, error_msg \in ErrorMessages :
           CallLlm(mode, content, error_msg)
    \/ \E td \in ProcessRecords, mode \in GatewayModes : Process(td, mode)

SpecItin == InitItin /\ [][NextItin]_vars


(***************************************************************************)
(* agents/details_agent.py and agents/determine_next_question.py: the      *)
(* Question Planner, and DetailsAgent.process.                             *)
(***************************************************************************)
tier1_fields ==
    <<K_Destination, K_Origin, K_Duration, K_Travel_Dates, K_Travelers_Count, K_Budget>>

tier2_fields ==
    <<K_Travelers_Type, K_Dietary_Preferences, K_Mobility_Concerns, K_Accommodation_Type>>

tier3_fields ==
    <<K_Purpose_Of_Trip, K_Must_See_Attractions, K_Transportation_Preferences,
      K_Special_Occasions, K_Weather_Preferences>>

tier4_fields ==
    <<K_Previous_Travel_Experience, K_Shopping_Interests, K_Language_Assistance_Needs,
      K_Season>>

SeqSet(q) == {q[i] : i \in 1..Len(q)}

S_Ready == <<"G","r","e","a","t","!"," ","I"," ","h","a","v","e"," ","a","l","l"," ","t","h","e"," ","e","s","s","e","n","t","i","a","l"," ","i","n","f","o","r","m","a","t","i","o","n">>
S_Fallback == <<"I"," ","t","h","i","n","k"," ","w","e"," ","h","a","v","e"," ","a","l","l"," ","t","h","e"," ","i","n","f","o","r","m","a","t","i","o","n"," ","w","e"," ","n","e","e","d","!">>
S_quoted == <<"\"","S","u","r","e","."," ","W","h","e","r","e"," ","t","o","?"," ","T","h","a","n","k","s",".","\""," ">>

\* [field for field in fields if not current_details.get(field, "")]
MissingUntrimmed(fields, current_details) ==
    LET blank(field) == Get(current_details, field, <<>>) = <<>>
    IN  SelectSeq(fields, blank)

\* [field for field in fields if not current_details.get(field, "").strip()]
Missing(fields, current_details) ==
    LET blank(field) == Strip(Get(current_details, field, <<>>)) = <<>>
    IN  SelectSeq(fields, blank)

NoField == <<>>

\* a choice of the first missing required field, whatever its tier
TargetFieldRequired(current_details) == Missing(details_required_fields, current_details)[1]

\* The field the prompt asks about, details_agent.py lines 218-223
TargetField(current_details) ==
    LET missing_tier1 == Missing(tier1_fields, current_details)
        missing_tier2 == Missing(tier2_fields, current_details)
    IN  IF missing_tier1 /= <<>> THEN missing_tier1[1]
        ELSE IF missing_tier2 /= <<>> THEN missing_tier2[1]
        ELSE tier3_fields[1]

\* The field the prompt asks about, determine_next_question.py lines 46-70
\* (NoField when the fallback of line 70 returns)
TargetField2(current_details) ==
    LET missing_tier1 == Missing(tier1_fields, current_details)
        missing_tier2 == Missing(tier2_fields, current_details)
        missing_tier3 == Missing(tier3_fields, current_details)
        tiered(field) == field \in SeqSet(tier1_fields \o tier2_fields \o tier3_fields)
        untiered(field) == ~tiered(field)
        remaining_missing == Missing(SelectSeq(details_optional_fields, untiered),
                                     current_details)
    IN  IF missing_tier1 /= <<>> THEN missing_tier1[1]
        ELSE IF missing_tier2 /= <<>> THEN missing_tier2[1]
        ELSE IF missing_tier3 /= <<>> THEN missing_tier3[1]
        ELSE IF remaining_missing /= <<>> THEN remaining_missing[1]
        ELSE NoField

Quotes == {"\"", "'"}

Terminators == {".", "!", "?"}

\* re.search(r'([^.!?]+\?)', text): the leftmost run of characters that are no
\* sentence terminator and that a "?" follows, with that "?"; <<>> for no match
RECURSIVE FirstQuestion(_, _)
FirstQuestion(text, from) ==
    IF from > Len(text) THEN <<>>
    ELSE IF text[from] \in Terminators THEN FirstQuestion(text, from + 1)
    ELSE LET stop == CHOOSE k \in from..(Len(text) + 1) :
                        /\ \A m \in from..(k - 1) : text[m] \notin Terminators
                        /\ (k = Len(text) + 1 \/ text[k] \in Terminators)
         IN  IF stop <= Len(text) /\ text[stop] = "?" THEN SubSeq(text, from, stop)
             ELSE FirstQuestion(text, stop + 1)

\* field_emojis.get(target_field, default): one emoji, a single character
Emoji(target_field) == <<"emoji">> \o target_field

\* The clean-up of determine_next_question.py lines 122-155; no completion of the
\* model holds an emoji, so one is appended.
CleanQuestion(text, target_field) ==
    LET t1 == Strip(text)
        t2 == IF t1 /= <<>> /\ t1[1] \in Quotes THEN Tail(t1) ELSE t1
        t3 == Strip(t2)
        t4 == IF t3 /= <<>> /\ t3[Len(t3)] \in Quotes THEN SubSeq(t3, 1, Len(t3) - 1) ELSE t3
        found == FirstQuestion(t4, 1)
        t5 == IF t4 /= <<>> /\ t4[Len(t4)] = "?" THEN t4
              ELSE IF found /= <<>> THEN Strip(found) ELSE t4
    IN  t5 \o <<" ">> \o Emoji(target_field)

\* DetailsAgent._determine_next_question (details_agent.py lines 174-256): the
\* question and the missing required fields it returns, the field its prompt
\* names and the number of call_llm calls it made.
_determine_next_question(current_details, mode, content) ==
    LET missing_required == Missing(details_required_fields, current_details)
    IN  IF missing_required = <<>>
        THEN [next_question |-> S_Ready, missing_required |-> <<>>,
              target_field |-> NoField, llm_calls |-> 0]
        ELSE [next_question |-> Strip(call_llm(mode, content, S_timeout).text),
              missing_required |-> missing_required,
              target_field |-> TargetField(current_details), llm_calls |-> 1]

\* _determine_next_question of determine_next_question.py (lines 1-158)
_determine_next_question2(current_details, mode, content) ==
    LET missing_required == Missing(details_required_fields, current_details)
        target_field == TargetField2(current_details)
    IN  IF missing_required = <<>>
        THEN [next_question |-> S_Ready, missing_required |-> <<>>,
              target_field |-> NoField, llm_calls |-> 0]
        ELSE IF target_field = NoField
        THEN [next_question |-> S_Fallback, missing_required |-> <<>>,
              target_field |-> NoField, llm_calls |-> 0]
        ELSE [next_question |->
                  CleanQuestion(call_llm(mode, content, S_timeout).text, target_field),
              missing_required |-> missing_required,
              target_field |-> target_field, llm_calls |-> 1]

\* The fields the records of the planner vary in.
PlannerFields == DetailsRequiredSet \cup {K_Accommodation_Type}

AllDetailsFields == DetailsRequiredSet \cup DetailsOptionalSet

\* The records handed to the planner: every choice of filled fields, records
\* with a whitespace-only field, and the empty record of the session.
PlannerRecords ==
    {[k \in AllDetailsFields |-> IF k \in filled THEN S_Rome ELSE <<>>] :
        filled \in SUBSET PlannerFields}
    \cup {[k \in AllDetailsFields |->
              IF k = b THEN S_blank ELSE IF k \in DetailsRequiredSet THEN S_Rome ELSE <<>>] :
            b \in {K_Destination, K_Budget, K_Mobility_Concerns}}
    \cup {EmptyTripDetails}

\* The gateway of a planner call: its mode and the completion it would answer.
PlannerGateways ==
    {<<"no_client", S_completion>>, <<"raises", S_completion>>,
     <<"answers", S_completion>>, <<"answers", S_quoted>>}

\* One call of the planner of details_agent.py.
DetermineNextQuestion(current_details, gateway) ==
    /\ call.op = "none"
    /\ call' = [op |-> "_determine_next_question", version |-> 1,
                current_details |-> current_details, gateway |-> gateway,
                result |-> _determine_next_question(current_details, gateway[1], gateway[2])]
    /\ UNCHANGED <<trip_details, itinerary_generated, generated_itinerary, conversation, details,
                   cache, search_results_cache>>

\* One call of the planner of determine_next_question.py.
DetermineNextQuestion2(current_details, gateway) ==
    /\ call.op = "none"
    /\ call' = [op |-> "_determine_next_question", version |-> 2,
                current_details |-> current_details, gateway |-> gateway,
                result |-> _determine_next_question2(current_details, gateway[1], gateway[2])]
    /\ UNCHANGED <<trip_details, itinerary_generated, generated_itinerary, conversation, details,
                   cache, search_results_cache>>

\* The record process is handed with its keys in dict order: none (process
\* builds the record of line 58), or the empty Trip Record of the session.
ProcessInputs ==
    {[current_details |-> [k \in AllDetailsFields |-> <<>>],
      fields |-> details_required_fields \o details_optional_fields],
     [current_details |-> EmptyTripDetails, fields |-> TripKeySeq]}

\* The extractions of one user message: the five required fields of the session
\* under the names of DetailsAgent or of the session, the nine of DetailsAgent,
\* or Destination alone; every named field confident.
ProcessExtractions ==
    {[kind |-> "decoded",
      updated_details |-> Dict([k \in S |-> S_Rome]),
      confidence_scores |-> Dict([k \in S |-> Score(90)])] :
         S \in {{K_Destination, K_Duration, K_Budget, K_Dietary_Preferences,
                 K_Mobility_Concerns},
                RequiredSet, DetailsRequiredSet, {K_Destination}}}
    \cup {[kind |-> "no_match", updated_details |-> NotDict, confidence_scores |-> NotDict]}

\* DetailsAgent.process (lines 52-75): the merge of the extraction into
\* current_details, then the planner on the merged record.
DetailsAgentProcess(input, extraction, gateway) ==
    /\ call.op = "none"
    /\ LET r == _extract_details(input.current_details, input.fields, extraction)
           q == _determine_next_question(r.details, gateway[1], gateway[2])
       IN  /\ details' = r.details
           /\ call' = [op |-> "DetailsAgent.process", before |-> input.current_details,
                       extraction |-> extraction, gateway |-> gateway,
                       result |-> [updated_details |-> r.details,
                                   next_question |-> q.next_question,
                                   missing_fields |-> q.missing_required,
                                   llm_calls |-> q.llm_calls]]
    /\ UNCHANGED <<trip_details, itinerary_generated, generated_itinerary, conversation,
                   cache, search_results_cache>>

InitPlanner ==
    /\ call = NoCall
    /\ cache = <<>>
    /\ search_results_cache = <<>>
    /\ details = [k \in AllDetailsFields |-> <<>>]
    /\ trip_details = EmptyTripDetails
    /\ itinerary_generated = FALSE
    /\ generated_itinerary = NoItinerary
    /\ conversation = <<>>

NextPlanner ==
    \/ \E current_details \in PlannerRecords, gateway \in PlannerGateways :
           DetermineNextQuestion(current_details, gateway)
    \/ \E current_details \in PlannerRecords, gateway \in PlannerGateways :
           DetermineNextQuestion2(current_details, gateway)
    \/ \E input \in ProcessInputs, extraction \in ProcessExtractions,
          gateway \in PlannerGateways :
           DetailsAgentProcess(input, extraction, gateway)

SpecPlanner == InitPlanner /\ [][NextPlanner]_vars

(***************************************************************************)
(* The extraction of a JSON block from a response.  A response is a string *)
(* over braces, brackets, whitespace and "t", which stands for any other   *)
(* text (prose outside a block, keys and scalars inside one).              *)
(***************************************************************************)
MaxLen == 4

ResponseChars == {"{", "}", "[", "]", "t", " "}

Responses == UNION {[1..n -> ResponseChars] : n \in 0..MaxLen}

NoSpan == <<0, 0>>

Min(S) == CHOOSE x \in S : \A y \in S : x <= y

Max(S) == CHOOSE x \in S : \A y \in S : x >= y

CloserOf(c) == IF c = "{" THEN "}" ELSE "]"

\* The index of the bracket that closes the one opened at or after pos with
\* the brackets of stack still open; 0 when the nesting breaks first.
RECURSIVE CloseOf(_, _, _)
CloseOf(s, pos, stack) ==
    IF pos > Len(s) THEN 0
    ELSE IF s[pos] \in {"{", "["} THEN CloseOf(s, pos + 1, <<s[pos]>> \o stack)
    ELSE IF s[pos] \in {"}", "]"}
         THEN IF stack = <<>> \/ CloserOf(Head(stack)) /= s[pos] THEN 0
              ELSE IF Len(stack) = 1 THEN pos
              ELSE CloseOf(s, pos + 1, Tail(stack))
    ELSE CloseOf(s, pos + 1, stack)

\* json.loads accepts a text that is one well-nested {...} or [...] value
\* (surrounding whitespace aside).
json_loads_accepts(text) ==
    LET u == Strip(text)
    IN  u /= <<>> /\ u[1] \in {"{", "["} /\ CloseOf(u, 1, <<>>) = Len(u)

\* r'{[\s\S]*?}(?=\s*$)' tried at position i: the lazy body stops at the first "}"
\* that only whitespace follows; 0 when there is no match at i.
LazyMatchEnd(s, i) ==
    LET ends == {j \in (i + 1)..Len(s) :
                    s[j] = "}" /\ \A k \in (j + 1)..Len(s) : s[k] \in Whitespace}
    IN  IF s[i] = "{" /\ ends /= {} THEN Min(ends) ELSE 0

\* re.finditer: the successive non-overlapping matches, leftmost first
RECURSIVE FindIter(_, _)
FindIter(s, pos) ==
    IF pos > Len(s) THEN <<>>
    ELSE IF LazyMatchEnd(s, pos) > 0
         THEN <<<<pos, LazyMatchEnd(s, pos)>>>> \o FindIter(s, LazyMatchEnd(s, pos) + 1)
         ELSE FindIter(s, pos + 1)

\* extract_json_from_response (Agenta.py and utils/state_manager.py): the span
\* of json_matches[-1] and whether json.loads decodes it (None otherwise).
extract_json_from_response(response) ==
    LET json_matches == FindIter(response, 1)
        span == IF json_matches = <<>> THEN NoSpan ELSE json_matches[Len(json_matches)]
    IN  [span |-> span,
         parsed |-> span /= NoSpan /\ json_loads_accepts(SubSeq(response, span[1], span[2]))]

\* re.search(r'({[\s\S]*})', result) and re.search(r'(\[[\s\S]*\])', result): the
\* leftmost opening bracket that a closing one follows, up to the last closing one.
GreedySearch(s, open) ==
    LET closes == {j \in 1..Len(s) : s[j] = CloserOf(open)}
        opens == {i \in 1..Len(s) : s[i] = open /\ \E j \in closes : j > i}
        span == IF opens = {} THEN NoSpan ELSE <<Min(opens), Max(closes)>>
    IN  [span |-> span,
         parsed |-> span /= NoSpan /\ json_loads_accepts(SubSeq(s, span[1], span[2]))]

ExtractJsonFromResponse(response) ==
    /\ call.op = "none"
    /\ call' = [op |-> "extract_json_from_response", open |-> "{", response |-> response,
                result |-> extract_json_from_response(response)]
    /\ UNCHANGED <<trip_details, itinerary_generated, generated_itinerary, conversation, details,
                   cache, search_results_cache>>

\* The block search of DetailsAgent._extract_details (line 156)
SearchDetailsJson(response) ==
    /\ call.op = "none"
    /\ call' = [op |-> "_extract_details.search", open |-> "{", response |-> response,
                result |-> GreedySearch(response, "{")]
    /\ UNCHANGED <<trip_details, itinerary_generated, generated_itinerary, conversation, details,
                   cache, search_results_cache>>

\* The block search of DestinationAgent._get_local_events (line 163)
SearchEventsJson(response) ==
    /\ call.op = "none"
    /\ call' = [op |-> "_get_local_events.search", open |-> "[", response |-> response,
                result |-> GreedySearch(response, "[")]
    /\ UNCHANGED <<trip_details, itinerary_generated, generated_itinerary, conversation, details,
                   cache, search_results_cache>>

InitJson ==
    /\ call = NoCall
    /\ cache = <<>>
    /\ search_results_cache = <<>>
    /\ details = <<>>
    /\ trip_details = EmptyTripDetails
    /\ itinerary_generated = FALSE
    /\ generated_itinerary = NoItinerary
    /\ conversation = <<>>

NextJson ==
    \/ \E response \in Responses : ExtractJsonFromResponse(response)
    \/ \E response \in Responses : SearchDetailsJson(response)
    \/ \E response \in Responses : SearchEventsJson(response)

SpecJson == InitJson /\ [][NextJson]_vars

(***************************************************************************)
(* The destination research caches.  DestinationAgent.process keeps        *)
(* self.cache (BaseAgent), DestinationResearchAgent.get_destination_info   *)
(* keeps self.search_results_cache.  What the research fabricates for a    *)
(* destination (completion texts, date) is an input: two requests for the  *)
(* same destination may fabricate different data.                          *)
(***************************************************************************)
ResearchData == {"first", "second"}

\* Responses of the weather, events and advisory completions, over the
\* characters of the JSON section.
R_text == <<"t">>
R_obj == <<"{", "t", "}">>
R_arr == <<"[", "t", "]">>
R_two == <<"{", "}", "{", "}">>
R_open == <<"{", "t">>
R_mixed == <<"{", "t", "]", "}">>
R_arrs == <<"[", "]", "t", "[", "]">>

\* What the four completions of one research may return: the overview text and
\* the weather, events and advisory responses.
ResearchOutcomes ==
    {[overview |-> "first", weather |-> R_obj, events |-> R_arr, advisory |-> R_obj],
     [overview |-> "second", weather |-> R_obj, events |-> R_arr, advisory |-> R_obj],
     [overview |-> "first", weather |-> R_text, events |-> R_arr, advisory |-> R_mixed],
     [overview |-> "first", weather |-> R_mixed, events |-> R_text, advisory |-> R_open],
     [overview |-> "first", weather |-> R_two, events |-> R_arrs, advisory |-> R_text]}

\* The destination strings DestinationAgent.process is asked about.
AgentDestinations == {<<>>, S_blank, S_Rome, S_RomePadded}

\* The destination strings get_destination_info is asked about.
CacheDestinations == {<<>>, S_Rome, S_RomePadded}

NoRecord == [kind |-> "None"]

\* `destination in self.cache`, read as always absent
CacheNeverHit(c, destination) == FALSE

\* `if destination in self.cache` / `if destination in self.search_results_cache`
CacheHit(c, destination) == destination \in DOMAIN c

\* a sub-field parser that returns None where it should return a placeholder
_get_block_none(result, open) ==
    LET m == GreedySearch(result, open)
    IN  IF m.parsed THEN [kind |-> "data", text |-> SubSeq(result, m.span[1], m.span[2])]
        ELSE [kind |-> "None"]

\* The parsing of _get_weather (lines 112-121) and _get_travel_advisories
\* (lines 201-210): the decoded block, {"error": "Could not parse ..."} when
\* the search finds none, {"error": str(e)} when json.loads raises.
_get_block(result, open) ==
    LET m == GreedySearch(result, open)
    IN  IF m.span = NoSpan THEN [kind |-> "error", error |-> "Could not parse"]
        ELSE IF m.parsed
        THEN [kind |-> "data", text |-> SubSeq(result, m.span[1], m.span[2])]
        ELSE [kind |-> "error", error |-> "str(e)"]

_get_weather(result) == _get_block(result, "{")

_get_travel_advisories(result) == _get_block(result, "{")

\* The parsing of _get_local_events (lines 160-170): the decoded array, or []
_get_local_events(result) ==
    LET m == GreedySearch(result, "[")
    IN  IF m.parsed THEN [kind |-> "data", text |-> SubSeq(result, m.span[1], m.span[2])]
        ELSE [kind |-> "list", items |-> <<>>]

\* full_data of DestinationAgent.process (lines 39-46)
full_data(destination, data) ==
    [kind |-> "record", destination |-> destination, overview |-> data.overview,
     weather |-> _get_weather(data.weather),
     events |-> _get_local_events(data.events),
     advisories |-> _get_travel_advisories(data.advisory)]

\* What no research was handed: the request made no completion call.
NoOutcome == [overview |-> "none", weather |-> <<>>, events |-> <<>>, advisory |-> <<>>]

\* DestinationAgent.process(destination); a miss makes the four call_llm calls
\* of _research_destination, _get_weather, _get_local_events and
\* _get_travel_advisories.
DestinationAgentProcess(destination, data) ==
    /\ IF destination = <<>>
         THEN /\ call' = [op |-> "DestinationAgent.process", destination |-> destination,
                          result |-> NoRecord, researched |-> FALSE, llm_calls |-> 0,
                          outcome |-> NoOutcome]
              /\ cache' = cache
         ELSE LET key == Strip(destination) IN
              IF CacheHit(cache, key)
                THEN /\ call' = [op |-> "DestinationAgent.process",
                                 destination |-> destination, result |-> cache[key],
                                 researched |-> FALSE, llm_calls |-> 0,
                                 outcome |-> NoOutcome]
                     /\ cache' = cache
                ELSE /\ call' = [op |-> "DestinationAgent.process",
                                 destination |-> destination,
                                 result |-> full_data(key, data),
                                 researched |-> TRUE, llm_calls |-> 4,
                                 outcome |-> data]
                     /\ cache' = SetItem(cache, key, full_data(key, data))
    /\ UNCHANGED <<trip_details, itinerary_generated, generated_itinerary, conversation,
                   details, search_results_cache>>

\* destination_data of _analyze_search_results / _create_mock_destination_data
destination_data(destination, data) ==
    [kind |-> "record", destination |-> destination, info |-> data]

\* DestinationResearchAgent.get_destination_info(destination)
GetDestinationInfo(destination, data) ==
    /\ IF CacheHit(search_results_cache, destination)
         THEN /\ call' = [op |-> "get_destination_info", destination |-> destination,
                          result |-> search_results_cache[destination],
                          researched |-> FALSE]
              /\ search_results_cache' = search_results_cache
         ELSE /\ call' = [op |-> "get_destination_info", destination |-> destination,
                          result |-> destination_data(destination, data),
                          researched |-> TRUE]
              /\ search_results_cache' =
                     SetItem(search_results_cache, destination,
                             destination_data(destination, data))
    /\ UNCHANGED <<trip_details, itinerary_generated, generated_itinerary, conversation,
                   details, cache>>

\* A run of the Agenta.py script: the module-level statement
\* destination_agent = DestinationResearchAgent(openai_client=client)
\* builds a new agent, whose __init__ sets self.search_results_cache = {}.
ScriptRun ==
    /\ search_results_cache' = <<>>
    /\ call' = [op |-> "script_run"]
    /\ UNCHANGED <<trip_details, itinerary_generated, generated_itinerary, conversation,
                   details, cache>>

InitCache ==
    /\ trip_details = EmptyTripDetails
    /\ itinerary_generated = FALSE
    /\ generated_itinerary = NoItinerary
    /\ conversation = <<>>
    /\ details = <<>>
    /\ call = NoCall
    /\ cache = <<>>
    /\ search_results_cache = <<>>

NextCache ==
    \/ \E destination \in AgentDestinations, data \in ResearchOutcomes :
           DestinationAgentProcess(destination, data)
    \/ \E destination \in CacheDestinations, data \in ResearchData :
           GetDestinationInfo(destination, data)
    \/ ScriptRun

SpecCache == InitCache /\ [][NextCache]_vars

(***************************************************************************)
(* The claims.                                                             *)
(***************************************************************************)
\* A value is non-empty after trimming when some character of it is not whitespace.
NonBlank(s) == \E i \in 1..Len(s) : s[i] \notin Whitespace

Complete(td) == \A k \in RequiredSet : k \in DOMAIN td /\ NonBlank(td[k])

OptionalKeys == TripKeys \ RequiredSet

Without(td, k) == [x \in DOMAIN td \ {k} |-> td[x]]

With(td, k, v) == [x \in DOMAIN td \cup {k} |-> IF x = k THEN v ELSE td[x]]

\* The text contains, compared case-insensitively, one of the phrases.
MentionsOneOf(text, phrases) ==
    \E phrase \in phrases : \E i \in 0..(Len(text) - Len(phrase)) :
        \A j \in 1..Len(phrase) : LowerChar(text[i + j]) = phrase[j]

\* C1: the completeness predicate (both has_required_details of the session
\* record, and DetailsAgent.has_required_details over its own required fields)
\* is true exactly when every required field holds a character that is
\* not whitespace, and changing, removing or adding a field outside the required
\* set never changes its result.
C1_CompleteIffRequiredNonBlank ==
    /\ has_required_details(trip_details) <=> Complete(trip_details)
    /\ agenta_has_required_details(trip_details) <=> Complete(trip_details)
    /\ \A k \in OptionalKeys :
          /\ \A v \in {<<>>, S_blank, S_summer} :
                /\ has_required_details([trip_details EXCEPT ![k] = v])
                       = has_required_details(trip_details)
                /\ agenta_has_required_details([trip_details EXCEPT ![k] = v])
                       = agenta_has_required_details(trip_details)
          /\ has_required_details(Without(trip_details, k))
                 = has_required_details(trip_details)
          /\ agenta_has_required_details(Without(trip_details, k))
                 = agenta_has_required_details(trip_details)
    /\ \A v \in {<<>>, S_cat} :
          /\ has_required_details(With(trip_details, K_Pets, v))
                 = has_required_details(trip_details)
          /\ agenta_has_required_details(With(trip_details, K_Pets, v))
                 = agenta_has_required_details(trip_details)
    /\ call.op = "has_required_details" =>
          /\ call.details_result
                 <=> \A k \in DetailsRequiredSet :
                        k \in DOMAIN call.details /\ NonBlank(call.details[k])
          /\ \A k \in DetailsOptionalSet \cup {K_Pets} : \A v \in {<<>>, S_blank, S_cat} :
                /\ DetailsAgent_has_required_details(With(call.details, k, v))
                       = call.details_result
                /\ DetailsAgent_has_required_details(Without(call.details, k))
                       = call.details_result

\* C1 witness: has_required_details was called on a record whose only blank
\* required field is a whitespace-only Destination, and answered False.
C1_Witness ==
    /\ call.op = "has_required_details"
    /\ call.result = FALSE
    /\ trip_details[K_Destination] = S_blank
    /\ \A k \in RequiredSet \ {K_Destination} : trip_details[k] /= <<>>

\* C2 (as claimed): from a state with a stored itinerary, update_trip_details
\* with a Destination that is non-empty and differs from the stored one clears
\* itinerary_generated and generated_itinerary and leaves every field that is
\* not in the update with its previous value.
C2_DestinationChangeResets ==
    [][(/\ call'.op = "update_trip_details"
        /\ ~call'.raised
        /\ itinerary_generated
        /\ generated_itinerary.present
        /\ HasKey(call'.new_details, K_Destination)
        /\ IsStr(ItemValue(call'.new_details, K_Destination))
        /\ NonBlank(ItemValue(call'.new_details, K_Destination))
        /\ ItemValue(call'.new_details, K_Destination) /= trip_details[K_Destination])
       => (/\ itinerary_generated' = FALSE
           /\ generated_itinerary' = NoItinerary
           /\ \A k \in TripKeys :
                 ~HasKey(call'.new_details, k) => trip_details'[k] = trip_details[k])]_vars

\* C3 (as claimed): in the dialogue loop a stored itinerary was generated for
\* the current Destination.
C3_ItineraryForCurrentDestination ==
    generated_itinerary.present
        => generated_itinerary.destination = trip_details[K_Destination]

\* C4: in the dialogue loop itinerary_generated turns from false to true only
\* in a turn whose user input mentions, case-insensitively, one of the five
\* trigger phrases, and only when the Trip Record is complete.
C4_GeneratedOnlyOnTrigger ==
    [][(~itinerary_generated /\ itinerary_generated')
       => (/\ Len(conversation') = Len(Greet(conversation)) + 2
           /\ conversation'[Len(conversation') - 1].role = "user"
           /\ MentionsOneOf(conversation'[Len(conversation') - 1].content, generate_triggers)
           /\ Complete(trip_details'))]_vars

\* C4 witness: an itinerary was generated in a turn whose input was the
\* mixed-case "Plan My Trip".
C4_Witness ==
    /\ itinerary_generated
    /\ Len(conversation) >= 2
    /\ conversation[Len(conversation) - 1] = [role |-> "user", content |-> Strip(S_PlanMyTrip)]

\* C5 (as claimed): trigger detection fires for "please generate itinerary now"
\* and does not fire for "I generally like plans".
C5_TriggerDetection ==
    call.op = "should_generate_itinerary"
        => /\ call.user_input = S_pleasegen => call.result
           /\ call.user_input = S_generally => ~call.result

\* C6: the key set of the Trip Record is the one it was created with after any
\* sequence of chat turns (model JSON naming unknown fields included), extractor
\* merges, update_trip_details calls, sidebar updates and resets.
C6_KeySetFixed == DOMAIN trip_details = TripKeys

\* C6 witness: an update_trip_details call or a merge, after a chat turn, has named the unknown
\* field "Pets", and a value of the record has changed.
C6_Witness ==
    /\ call.op \in {"update_trip_details", "_extract_details"}
    /\ \/ call.op = "update_trip_details" /\ HasKey(call.new_details, K_Pets)
       \/ call.op = "_extract_details" /\ K_Pets \in DOMAIN call.result.updated_details.m
    /\ trip_details /= EmptyTripDetails
    /\ NumUserTurns(conversation) > 0

ExtractedNonEmpty(result, field) ==
    /\ field \in DOMAIN result.updated_details.m
    /\ result.updated_details.m[field] /= <<>>
    /\ result.updated_details.m[field] /= JNull

ScoreAbove50(result, field) ==
    /\ field \in DOMAIN result.confidence_scores.m
    /\ result.confidence_scores.m[field].num
    /\ result.confidence_scores.m[field].n > 50

\* The response holds no decodable block, or one with an ill-typed part.
MalformedResult(result) ==
    \/ result.kind /= "decoded"
    \/ ~result.updated_details.isdict
    \/ ~result.confidence_scores.isdict
    \/ \E f \in DOMAIN result.updated_details.m : ~IsStr(result.updated_details.m[f])
    \/ \E f \in DOMAIN result.confidence_scores.m : ~result.confidence_scores.m[f].num

\* C7: in the merge of a well-formed extraction (a decoded block whose values
\* are strings and whose scores are numbers), each field ends with the extracted
\* value if that value is non-empty and its score is above 50, and with its
\* previous value otherwise: a score of 50, a lower one or none leaves the field
\* alone.
C7_OverwriteIffConfident ==
    (call.op = "_extract_details" /\ call.times = 1 /\ ~MalformedResult(call.result))
    => \A field \in MergeFieldSet :
          details[field] =
              IF ExtractedNonEmpty(call.result, field) /\ ScoreAbove50(call.result, field)
              THEN call.result.updated_details.m[field]
              ELSE call.before[field]

\* C7 witness: one merge kept a field whose non-empty extracted value scored
\* exactly 50 and overwrote another whose value scored 51.
C7_Witness ==
    /\ call.op = "_extract_details" /\ call.times = 1
    /\ ~MalformedResult(call.result)
    /\ \E f, g \in MergeFieldSet :
          /\ ExtractedNonEmpty(call.result, f)
          /\ f \in DOMAIN call.result.confidence_scores.m
          /\ call.result.confidence_scores.m[f] = Score(50)
          /\ details[f] = call.before[f]
          /\ details[f] /= call.result.updated_details.m[f]
          /\ ExtractedNonEmpty(call.result, g)
          /\ g \in DOMAIN call.result.confidence_scores.m
          /\ call.result.confidence_scores.m[g] = Score(51)
          /\ details[g] = call.result.updated_details.m[g]
          /\ details[g] /= call.before[g]

\* C8: merging the same response a second time leaves the record the first
\* merge produced.
C8_MergeIdempotent ==
    (call.op = "_extract_details" /\ call.times = 2) => details = call.once

\* C8 witness: a response whose merge changed the record was merged twice.
C8_Witness ==
    /\ call.op = "_extract_details" /\ call.times = 2
    /\ call.once /= call.before

\* C9 (as claimed): when the response holds no JSON block or a malformed one
\* (undecodable, or with ill-typed updated_details / confidence_scores
\* entries), _extract_details returns every field with the value it had.
C9_MalformedLeavesRecord ==
    (call.op = "_extract_details" /\ call.times = 1 /\ MalformedResult(call.result))
    => details = call.before

\* The well-formed regions of s that open with the bracket open, as spans.
Regions(s, open) ==
    {<<i, CloseOf(s, i, <<>>)>> : i \in {k \in 1..Len(s) : s[k] = open /\ CloseOf(s, k, <<>>) > 0}}

\* Those that lie in no other one.
TopRegions(s, open) ==
    {r \in Regions(s, open) :
        ~\E q \in Regions(s, open) : q /= r /\ q[1] <= r[1] /\ r[2] <= q[2]}

LastRegion(s, open) ==
    CHOOSE r \in TopRegions(s, open) : \A q \in TopRegions(s, open) : q[1] <= r[1]

\* C10 (as claimed): on a response that holds several top-level {...} (or
\* [...]) regions, each extraction selects the last well-formed one.
C10_SelectsLastRegion ==
    (call.op \in {"extract_json_from_response", "_extract_details.search",
                  "_get_local_events.search"}
        /\ Cardinality(TopRegions(call.response, call.open)) >= 2)
    => call.result.span = LastRegion(call.response, call.open)

\* Destination and Duration are present and hold a character that is not whitespace.
Complete2(td) ==
    \A k \in {K_Destination, K_Duration} : k \in DOMAIN td /\ NonBlank(td[k])

HasDigit(s) == \E i \in 1..Len(s) : IsDigit(s[i])

\* What the keywords of a Duration text stand for: a weekend is 2 days and a
\* long weekend 3; otherwise a week is 7 days, two weeks 14 and three weeks 21;
\* 3 when no keyword occurs.
KeywordDays(s) ==
    IF MentionsOneOf(s, {W_weekend})
    THEN IF MentionsOneOf(s, {<<"l","o","n","g"," ","w","e","e","k","e","n","d">>}) THEN 3 ELSE 2
    ELSE IF MentionsOneOf(s, {<<"t","w","o"," ","w","e","e","k","s">>}) THEN 14
    ELSE IF MentionsOneOf(s, {<<"t","h","r","e","e"," ","w","e","e","k","s">>}) THEN 21
    ELSE IF MentionsOneOf(s, {W_week}) THEN 7
    ELSE 3

\* C11 (as claimed): on a Duration text without a digit _parse_duration returns
\* what its keywords stand for (weekend 2, long weekend 3, week 7, two weeks 14,
\* three weeks 21, none of them 3), whatever other words the text holds.
C11_KeywordFallback ==
    (call.op = "_parse_duration" /\ ~HasDigit(call.duration_text))
    => call.result = KeywordDays(call.duration_text)

\* The value of the first integer literal of a text that holds a digit.
FirstLiteralValue(s) ==
    LET i == CHOOSE k \in 1..Len(s) : IsDigit(s[k]) /\ \A m \in 1..(k - 1) : ~IsDigit(s[m])
        j == CHOOSE k \in i..Len(s) :
                 /\ \A m \in i..k : IsDigit(s[m])
                 /\ (k = Len(s) \/ ~IsDigit(s[k + 1]))
    IN  DecimalValue(SubSeq(s, i, j))

\* C12: on a Duration text that holds an integer literal _parse_duration returns
\* the value of the first one, whatever keywords the text holds besides.
C12_FirstIntegerLiteral ==
    (call.op = "_parse_duration" /\ HasDigit(call.duration_text))
    => call.result = FirstLiteralValue(call.duration_text)

\* C12 witness: _parse_duration answered 10 for "10 weeks", a text whose
\* keyword alone stands for 7.
C12_Witness ==
    /\ call.op = "_parse_duration"
    /\ call.duration_text = <<"1","0"," ","w","e","e","k","s">>
    /\ call.result = 10
    /\ KeywordDays(call.duration_text) = 7

\* C13: for a record whose Destination and Duration are not blank, process
\* returns a document: a heading with the day count n >= 1 and the Destination,
\* the overview, n blocks "Day 1" .. "Day n" in ascending order, the practical
\* information and the footer, the parts separated by horizontal rules; n is 5
\* for the Duration "5 days".
C13_DocumentStructure ==
    (call.op = "process" /\ Complete2(call.trip_details))
    => LET parts == call.result.parts
           n == parts[1].days
       IN  /\ call.result.kind = "document"
           /\ parts[1].part = "heading"
           /\ parts[1].destination = call.trip_details[K_Destination]
           /\ n >= 1
           /\ call.trip_details[K_Duration] = S_5days => n = 5
           /\ Len(parts) = 2 * n + 6
           /\ parts[2].part = "overview"
           /\ parts[3] = Rule
           /\ \A d \in 1..n : parts[2 * d + 2].part = "day" /\ parts[2 * d + 2].day = d
           /\ \A d \in 1..n : parts[2 * d + 3] = Rule
           /\ parts[2 * n + 4].part = "practical"
           /\ parts[2 * n + 5] = Rule
           /\ parts[2 * n + 6].part = "footer"

\* C13 witness: process was handed Destination "Paris" and Duration "5 days"
\* and returned a document with more than one day block.
C13_Witness ==
    /\ call.op = "process"
    /\ Complete2(call.trip_details)
    /\ call.trip_details[K_Destination] = S_Paris
    /\ call.trip_details[K_Duration] = S_5days
    /\ call.result.kind = "document"
    /\ \E i \in 1..Len(call.result.parts) :
          call.result.parts[i].part = "day" /\ call.result.parts[i].day = 5

\* C15: for a record whose Destination or Duration is empty, whitespace-only or
\* absent, process returns the "Insufficient details" message, no document, and
\* makes no call of the gateway.
C15_InsufficientDetails ==
    (call.op = "process" /\ ~Complete2(call.trip_details))
    => /\ call.result.kind = "message"
       /\ call.result.text = S_Insufficient
       /\ call.result.parts = <<>>
       /\ call.result.llm_calls = 0

\* C15 witness: process was handed a whitespace-only Destination beside the
\* Duration "5 days" and answered with the message.
C15_Witness ==
    /\ call.op = "process"
    /\ {K_Destination, K_Duration} \subseteq DOMAIN call.trip_details
    /\ call.trip_details[K_Destination] = S_blank
    /\ call.trip_details[K_Duration] = S_5days
    /\ call.result.kind = "message"

\* C17 (as claimed): when no client is configured or the completion call
\* raises, call_llm lets no exception escape and reports a failure value of the
\* type GatewayError, which no completion text equals.
C17_TypedGatewayFailure ==
    (call.op = "call_llm" /\ call.mode /= "answers")
    => /\ ~call.raised
       /\ call.result.type = "GatewayError"
       /\ \A content \in CompletionTexts :
             call_llm("answers", content, call.error_msg) /= call.result

\* The extraction names each of the five required fields of the session, under
\* the names of the session or of DetailsAgent, non-empty and with a score above
\* 50.
FillsTheFive(extraction) ==
    /\ extraction.kind = "decoded"
    /\ \/ \A k \in RequiredSet : ExtractedNonEmpty(extraction, k) /\ ScoreAbove50(extraction, k)
       \/ \A k \in {K_Destination, K_Duration, K_Budget, K_Dietary_Preferences,
                    K_Mobility_Concerns} :
             ExtractedNonEmpty(extraction, k) /\ ScoreAbove50(extraction, k)

\* C14 (as claimed): when DetailsAgent.process starts from an empty record and
\* the extraction of the message confidently fills Destination, Duration,
\* Budget, Dietary Preferences and Mobility Concerns, the record is complete in
\* that turn: the completeness gate is true, the planner's missing-required list
\* is empty and it asks no further question.
C14_ReadyInOneTurn ==
    (call.op = "DetailsAgent.process" /\ FillsTheFive(call.extraction))
    => /\ DetailsAgent_has_required_details(call.result.updated_details)
       /\ call.result.missing_fields = <<>>
       /\ call.result.next_question = S_Ready
       /\ call.result.llm_calls = 0

\* The required fields of the planner that are absent or blank, in order.
MissingRequired(d) ==
    LET absent(k) == ~(k \in DOMAIN d /\ NonBlank(d[k]))
    IN  SelectSeq(details_required_fields, absent)

\* C19: each planner returns as its second result the required fields whose
\* value is empty after trimming, in required-field order; when there is none it
\* returns the ready message and makes no call of the gateway.
C19_PlannerMissingList ==
    call.op = "_determine_next_question"
    => /\ call.result.missing_required = MissingRequired(call.current_details)
       /\ MissingRequired(call.current_details) = <<>>
             => call.result.next_question = S_Ready /\ call.result.llm_calls = 0

\* C19 witness: a planner was handed a record whose only gap is a whitespace-only
\* Budget and returned that one field.
C19_Witness ==
    /\ call.op = "_determine_next_question"
    /\ call.current_details[K_Budget] = S_blank
    /\ call.result.missing_required = <<K_Budget>>

\* The tiers in priority order, the optional fields of no tier last.
TierOrder ==
    <<tier1_fields, tier2_fields, tier3_fields, tier4_fields, details_optional_fields>>

\* The first missing field of the first tier that has one.
ExpectedTarget(d) ==
    LET absent(k) == ~(k \in DOMAIN d /\ NonBlank(d[k]))
        t == CHOOSE i \in 1..Len(TierOrder) :
                 /\ SelectSeq(TierOrder[i], absent) /= <<>>
                 /\ \A j \in 1..(i - 1) : SelectSeq(TierOrder[j], absent) = <<>>
    IN  SelectSeq(TierOrder[t], absent)[1]

\* C20: when a required field is missing each planner makes one call of the
\* gateway, about one field: the first missing field of the highest tier that
\* has a missing field.
C20_PlannerTargetsOneField ==
    (call.op = "_determine_next_question" /\ MissingRequired(call.current_details) /= <<>>)
    => /\ call.result.llm_calls = 1
       /\ call.result.target_field = ExpectedTarget(call.current_details)
       /\ ~(call.result.target_field \in DOMAIN call.current_details
              /\ NonBlank(call.current_details[call.result.target_field]))

\* C20 witness: with Budget (tier 1) and Travelers_Type (tier 2, earlier among
\* the required fields) both missing and the rest of tier 1 filled, the planner
\* asked about Budget.
C20_Witness ==
    /\ call.op = "_determine_next_question"
    /\ call.current_details \in PlannerRecords \ {EmptyTripDetails}
    /\ call.current_details[K_Budget] = <<>>
    /\ call.current_details[K_Travelers_Type] = <<>>
    /\ call.result.missing_required[1] = K_Travelers_Type
    /\ call.result.target_field = K_Budget

\* Every record of the cache c is in the cache c2, unchanged.
KeepsRecords(c, c2) ==
    \A k \in DOMAIN c : k \in DOMAIN c2 /\ c2[k] = c[k]

\* C16 (as claimed): the destination research cache is write-once per key: no
\* step of the program replaces or removes a record a cache holds, and a
\* request for a key a cache holds returns the record it holds.
C16_WriteOncePerKey ==
    [][ /\ KeepsRecords(cache, cache')
        /\ KeepsRecords(search_results_cache, search_results_cache')
        /\ (/\ call'.op = "DestinationAgent.process"
            /\ call'.destination # <<>>
            /\ Strip(call'.destination) \in DOMAIN cache)
               => call'.result = cache[Strip(call'.destination)]
        /\ (/\ call'.op = "get_destination_info"
            /\ call'.destination \in DOMAIN search_results_cache)
               => call'.result = search_results_cache[call'.destination]
      ]_vars

\* C16 for research requests alone: the two request handlers keep every
\* record of both caches.
C16_RequestsKeepRecords ==
    [][ call'.op \in {"DestinationAgent.process", "get_destination_info"}
          => /\ KeepsRecords(cache, cache')
             /\ KeepsRecords(search_results_cache, search_results_cache') ]_vars

\* C18: a chat turn whose completion call raises leaves every value of the Trip
\* Record, itinerary_generated and generated_itinerary as they were, and adds
\* the user turn and nothing else to the transcript.
C18_FailedTurnLeavesState ==
    [][(/\ NumUserTurns(conversation') > NumUserTurns(conversation)
        /\ call'.op = "chat_turn"
        /\ call'.completion = "raised")
       => (/\ trip_details' = trip_details
           /\ itinerary_generated' = itinerary_generated
           /\ generated_itinerary' = generated_itinerary
           /\ Len(conversation') = Len(conversation) + 1
           /\ SubSeq(conversation', 1, Len(conversation)) = conversation
           /\ conversation'[Len(conversation')].role = "user")]_vars

\* C18 witness: the completion of a turn raised in a session that held a
\* generated itinerary.
C18_Witness ==
    /\ call.op = "chat_turn"
    /\ call.completion = "raised"
    /\ conversation[Len(conversation)].role = "user"
    /\ itinerary_generated
    /\ generated_itinerary.present

\* The step is a chat turn: a user turn was recorded.
IsChatTurn == call'.op = "chat_turn" /\ NumUserTurns(conversation') > NumUserTurns(conversation)

\* The text of the user turn the step recorded.
TurnInput == conversation'[Len(conversation) + 1].content

\* Duration is non-empty and its first token is no integer literal.
NonNumericDuration(td) ==
    NonBlank(td[K_Duration]) /\ ~IsIntLiteral(FirstToken(td[K_Duration]))

\* C21 (as claimed): a chat turn that starts and ends with a complete Trip
\* Record whose Duration is non-empty but no pure integer, whose input holds a
\* trigger phrase and whose gateway calls all succeed, ends with an itinerary
\* generated and stored.
C21_NonNumericDurationGenerates ==
    [][(/\ IsChatTurn
        /\ call'.completion = "answered"
        /\ call'.llm_ok
        /\ should_generate(TurnInput)
        /\ Complete(trip_details)
        /\ trip_details' = trip_details
        /\ NonNumericDuration(trip_details))
       => (itinerary_generated' /\ generated_itinerary'.present)]_vars

\* The step asks for a regeneration: a chat turn whose input holds a trigger.
RequestsRegeneration == IsChatTurn /\ should_generate(TurnInput)

\* C22 (as claimed): once an itinerary is stored, every step that neither
\* changes Destination nor asks for a regeneration leaves itinerary_generated
\* true and the stored itinerary unchanged.
C22_GeneratedIsTerminal ==
    [][(/\ itinerary_generated
        /\ generated_itinerary.present
        /\ trip_details'[K_Destination] = trip_details[K_Destination]
        /\ ~RequestsRegeneration)
       => (itinerary_generated' /\ generated_itinerary' = generated_itinerary)]_vars

\* C26: the transcript of the loop is append-only: every step keeps each
\* recorded turn at its position with its role and text, and the only turn of
\* role system is the first one.
C26_TranscriptAppendOnly ==
    [][/\ Len(conversation') >= Len(conversation)
       /\ SubSeq(conversation', 1, Len(conversation)) = conversation
       /\ \A i \in 1..Len(conversation') : conversation'[i].role = "system" <=> i = 1]_vars

\* C26 witness: after a reset the transcript holds the system turn, the
\* greeting, a user turn whose completion failed (no assistant turn follows it)
\* and an answered user turn.
C26_Witness ==
    /\ call.op = "reset"
    /\ Len(conversation) >= 5
    /\ conversation[1] = SystemTurn
    /\ conversation[2] = GreetingTurn
    /\ \E i \in 3..(Len(conversation) - 1) :
          conversation[i].role = "user" /\ conversation[i + 1].role = "user"
    /\ conversation[Len(conversation)].role = "assistant"

\* C27: Reset leaves every field of the Trip Record empty, the flag false and
\* no stored itinerary, and keeps the key set of the record and the transcript.
C27_ResetClearsRecord ==
    [][call'.op = "reset"
       => (/\ \A k \in DOMAIN trip_details' : trip_details'[k] = <<>>
           /\ itinerary_generated' = FALSE
           /\ ~generated_itinerary'.present
           /\ DOMAIN trip_details' = DOMAIN trip_details
           /\ DOMAIN trip_details' = TripKeys
           /\ conversation' = conversation)]_vars

\* C27 witness: Reset was pressed in a session that held a generated itinerary
\* and a transcript with user turns.
C27_Witness ==
    /\ call.op = "reset"
    /\ call.had_itinerary
    /\ NumUserTurns(conversation) >= 1
    /\ trip_details = EmptyTripDetails
    /\ ~itinerary_generated

\* C29: in every state of the loop itinerary_generated is true exactly when an
\* itinerary is stored.
C29_ItineraryVariablesAgree ==
    itinerary_generated <=> generated_itinerary.present

\* C29 witness: a chat turn generated and stored an itinerary.
C29_Witness ==
    /\ call.op = "chat_turn"
    /\ itinerary_generated
    /\ generated_itinerary.present
    /\ generated_itinerary.days = 5

\* C30: in every state of the loop a true itinerary_generated comes with a
\* complete Trip Record.
C30_GeneratedImpliesComplete ==
    itinerary_generated => Complete(trip_details)

\* C30 witness: after the generation a chat turn changed Destination, and the
\* record is still complete with the itinerary kept.
C30_Witness ==
    /\ call.op = "chat_turn"
    /\ itinerary_generated
    /\ Complete(trip_details)
    /\ trip_details[K_Destination] /= generated_itinerary.destination

\* C23: for a valid record with day count n, process makes n + 2 calls of the
\* gateway in the order overview, day 1 .. day n, practical information, and
\* each call tries its completion at most once (once when a client exists),
\* also when the completion raises.
C23_GatewayCallsInOrder ==
    (call.op = "process" /\ Complete2(call.trip_details))
    => LET n == call.result.parts[1].days
           calls == call.result.calls
       IN  /\ Len(calls) = n + 2
           /\ call.result.llm_calls = n + 2
           /\ calls[1].for = "overview"
           /\ \A d \in 1..n : calls[d + 1].for = "day" /\ calls[d + 1].day = d
           /\ calls[n + 2].for = "practical"
           /\ \A i \in 1..(n + 2) :
                 calls[i].attempts = IF call.mode = "no_client" THEN 0 ELSE 1

\* C23 witness: process ran for "Paris", "5 days" with a gateway whose
\* completions raise, and made seven calls.
C23_Witness ==
    /\ call.op = "process"
    /\ Complete2(call.trip_details)
    /\ call.trip_details[K_Duration] = S_5days
    /\ call.mode = "raises"
    /\ Len(call.result.calls) = 7
    /\ call.result.calls[6].day = 5

\* C28 (as claimed): a step that turns a complete Trip Record into an incomplete
\* one is a sidebar update or a reset: no chat turn, update_trip_details call or
\* merge of an extraction does so.
C28_ChatUpdatesKeepComplete ==
    [][(Complete(trip_details) /\ ~Complete(trip_details'))
       => call'.op \in {"sidebar_update", "reset"}]_vars

\* C28 for update_trip_details and update_trip_details_from_json alone: neither
\* turns a complete Trip Record into an incomplete one.
C28_JsonUpdatesKeepComplete ==
    [][(Complete(trip_details) /\ call'.op \in {"chat_turn", "update_trip_details"})
       => Complete(trip_details')]_vars

\* The keys of the cache c that equal the destination d after trimming.
TrimmedMatches(c, d) == {k \in DOMAIN c : Strip(k) = Strip(d)}

\* C24 (as claimed): a research request whose destination equals, after
\* trimming, a key a cache holds returns the record of that key and performs no
\* research; a request with an empty destination performs no research and
\* caches nothing.  Stated for both DestinationAgent.process and
\* get_destination_info.
C24_KeyedByTrimmedDestination ==
    [][/\ (call'.op = "DestinationAgent.process" /\ call'.destination /= <<>>)
          => \A k \in TrimmedMatches(cache, call'.destination) :
                call'.result = cache[k] /\ ~call'.researched
       /\ (call'.op = "get_destination_info" /\ call'.destination /= <<>>)
          => \A k \in TrimmedMatches(search_results_cache, call'.destination) :
                call'.result = search_results_cache[k] /\ ~call'.researched
       /\ (call'.op \in {"DestinationAgent.process", "get_destination_info"}
             /\ call'.destination = <<>>)
          => /\ ~call'.researched
             /\ cache' = cache
             /\ search_results_cache' = search_results_cache]_vars

\* C24 for DestinationAgent.process alone: its cache is keyed by the trimmed
\* destination and the empty string is neither researched nor cached.
C24_AgentKeyedByTrimmed ==
    [][call'.op = "DestinationAgent.process"
       => IF call'.destination = <<>>
          THEN ~call'.researched /\ cache' = cache /\ call'.result = NoRecord
          ELSE \A k \in TrimmedMatches(cache, call'.destination) :
                  call'.result = cache[k] /\ ~call'.researched]_vars

\* No part of the response that starts at an opening bracket is a value
\* json.loads accepts.
NoParsableBlock(response, open) ==
    \A i \in 1..Len(response) : \A j \in i..Len(response) :
        response[i] = open => ~json_loads_accepts(SubSeq(response, i, j))

IsErrorObject(v) == v.kind = "error"

IsEmptyList(v) == v.kind = "list" /\ v.items = <<>>

\* C25: on a miss DestinationAgent.process returns a record; a weather or
\* advisory response without a parsable block leaves an error object in that
\* sub-field, an events response without one leaves an empty list; the record
\* is cached as returned, and a request for a cached destination returns the
\* cached record, placeholders included, with no call of the gateway.
C25_PlaceholdersAreCached ==
    [][(call'.op = "DestinationAgent.process" /\ call'.destination /= <<>>)
       => LET key == Strip(call'.destination)
              r == call'.result
          IN  IF key \in DOMAIN cache
              THEN r = cache[key] /\ call'.llm_calls = 0 /\ cache' = cache
              ELSE /\ r.kind = "record"
                   /\ key \in DOMAIN cache' /\ cache'[key] = r
                   /\ NoParsableBlock(call'.outcome.weather, "{") => IsErrorObject(r.weather)
                   /\ NoParsableBlock(call'.outcome.advisory, "{")
                         => IsErrorObject(r.advisories)
                   /\ NoParsableBlock(call'.outcome.events, "[") => IsEmptyList(r.events)]_vars

\* C25 witness: a request was answered from the cache, with no call of the
\* gateway, by a record whose weather and advisory are error objects and whose
\* events are the empty list.
C25_Witness ==
    /\ call.op = "DestinationAgent.process"
    /\ call.destination = S_RomePadded
    /\ call.llm_calls = 0
    /\ call.result.kind = "record"
    /\ IsErrorObject(call.result.weather)
    /\ IsErrorObject(call.result.advisories)
    /\ IsEmptyList(call.result.events)
    /\ cache[S_Rome] = call.result

====
